---- MODULE Spec2Model ----
(***************************************************************************)
(* Acoustic prediction engine of the CBC acoustics dashboard.              *)
(*                                                                         *)
(* Numbers.  The Python code computes in floating point.  The model is in  *)
(* exact rational arithmetic: every table entry of the source is a decimal *)
(* with two places and is held in hundredths (0.85 s -> 85, 1.35 -> 135),  *)
(* and every computed quantity is a fraction [num, den] of integers.       *)
(* Fractions are compared by FracLeq/FracEq, which are exact and never     *)
(* multiply two large numbers.                                             *)
(***************************************************************************)
EXTENDS Integers, Sequences, FiniteSets, TLC

VARIABLES
    room_volume,        \* TreatmentSimulator.room_volume (cubic feet)
    room_surface_area,  \* TreatmentSimulator.room_surface_area (square feet)
    current_conditions, \* TreatmentSimulator.current_conditions
    drape_data,         \* TreatmentSimulator.drape_data: [assigned, table]
    panel_specs,        \* TreatmentSimulator.panel_specs
    actual_rt60_data,   \* RT60HeatmapAnalyzerHub.actual_rt60_data
    smaart_hub,         \* contents of the Hub Smaart log files (environment)
    session_state,      \* st.session_state of the dashboard: key -> value
    health,             \* health_check.py: the process running the script
    args,               \* the arguments the caller passes in this run
    ret                 \* the last call: operation, arguments, outcome

vars == <<room_volume, room_surface_area, current_conditions, drape_data,
          panel_specs,
          actual_rt60_data, smaart_hub, session_state, health, args, ret>>

simVars == <<room_volume, room_surface_area, current_conditions, drape_data,
            panel_specs>>
hubVars == <<actual_rt60_data, smaart_hub>>

----------------------------------------------------------------------------
(* Exact fractions.                                                        *)

Frac(n, d) == [num |-> n, den |-> d]

Min(a, b) == IF a <= b THEN a ELSE b
Max(a, b) == IF a >= b THEN a ELSE b

\* a/b <= c/d for a, c >= 0 and b, d > 0, by the continued-fraction
\* expansion of both sides (no product of large numbers is formed).
RECURSIVE PosLeq(_, _, _, _)
PosLeq(a, b, c, d) ==
    LET q1 == a \div b
        q2 == c \div d
        r1 == a % b
        r2 == c % d
    IN  IF q1 # q2 THEN q1 < q2
        ELSE IF r1 = 0 THEN TRUE
        ELSE IF r2 = 0 THEN FALSE
        ELSE PosLeq(d, r2, b, r1)

\* x <= y for fractions with positive denominators and any sign of num.
FracLeq(x, y) ==
    IF x.num < 0
        THEN IF y.num >= 0 THEN TRUE
             ELSE PosLeq(-y.num, y.den, -x.num, x.den)
        ELSE IF y.num < 0 THEN FALSE
             ELSE PosLeq(x.num, x.den, y.num, y.den)

FracEq(x, y) == FracLeq(x, y) /\ FracLeq(y, x)
FracLess(x, y) == ~FracLeq(y, x)

----------------------------------------------------------------------------
(* TreatmentSimulator: tables.                                             *)

Spaces == {"Studio 8", "The Hub"}
Thickness == {"2_inch", "3_inch", "5_5_inch", "11_inch"}
SimBands == {125, 250, 500, 1000, 2000, 4000}

\* 0.161, the Sabine constant, in thousandths
SabineMilli == 161
\* panel_specs[t]["size"], square feet
PanelSize == 8
\* drape area in square feet
DrapeArea == 40
\* target_conditions["sti_target"], hundredths
sti_target == 75

\* the curves of the 2" and the 11" panel exchanged
M_get_absorption_curve_swapped(thickness) ==
    IF thickness = "11_inch" THEN
        (125 :> 15 @@ 250 :> 40 @@ 500 :> 75 @@ 1000 :> 80 @@ 2000 :> 85 @@ 4000 :> 85)
    ELSE IF thickness = "3_inch" THEN
        (125 :> 25 @@ 250 :> 60 @@ 500 :> 90 @@ 1000 :> 95 @@ 2000 :> 98 @@ 4000 :> 98)
    ELSE IF thickness = "5_5_inch" THEN
        (125 :> 45 @@ 250 :> 80 @@ 500 :> 105 @@ 1000 :> 115 @@ 2000 :> 118 @@ 4000 :> 115)
    ELSE
        (125 :> 75 @@ 250 :> 110 @@ 500 :> 125 @@ 1000 :> 135 @@ 2000 :> 130 @@ 4000 :> 120)

\* _get_absorption_curve(thickness), coefficients in hundredths
_get_absorption_curve(thickness) ==
    IF thickness = "2_inch" THEN
        (125 :> 15 @@ 250 :> 40 @@ 500 :> 75 @@ 1000 :> 80 @@ 2000 :> 85 @@ 4000 :> 85)
    ELSE IF thickness = "3_inch" THEN
        (125 :> 25 @@ 250 :> 60 @@ 500 :> 90 @@ 1000 :> 95 @@ 2000 :> 98 @@ 4000 :> 98)
    ELSE IF thickness = "5_5_inch" THEN
        (125 :> 45 @@ 250 :> 80 @@ 500 :> 105 @@ 1000 :> 115 @@ 2000 :> 118 @@ 4000 :> 115)
    ELSE
        (125 :> 75 @@ 250 :> 110 @@ 500 :> 125 @@ 1000 :> 135 @@ 2000 :> 130 @@ 4000 :> 120)

\* panel_specs as built by __init__
PanelSpecs ==
    [t \in Thickness |->
        [size |-> PanelSize, absorption_curve |-> _get_absorption_curve(t)]]

\* _load_space_parameters(space): the values it assigns
SpaceParameters(space) ==
    IF space = "The Hub" THEN
        [room_volume |-> 1900,
         room_surface_area |-> 1400,
         current_conditions |->
            [rt60_by_freq |-> (125 :> 72 @@ 250 :> 78 @@ 500 :> 65 @@
                               1000 :> 58 @@ 2000 :> 52 @@ 4000 :> 48),
             average_sti |-> 71,
             average_rt60 |-> 62]]
    ELSE
        [room_volume |-> 2650,
         room_surface_area |-> 1847,
         current_conditions |->
            [rt60_by_freq |-> (125 :> 85 @@ 250 :> 92 @@ 500 :> 78 @@
                               1000 :> 71 @@ 2000 :> 68 @@ 4000 :> 55),
             average_sti |-> 67,
             average_rt60 |-> 75]]

\* the hardcoded fallback of _load_drape_data, hundredths
DrapeFallback ==
    (125 :> 15 @@ 250 :> 30 @@ 500 :> 55 @@ 1000 :> 75 @@ 2000 :> 80 @@ 4000 :> 70)

\* a drape table as _load_drape_data can read it from the CSV file: the row
\* of one band may be missing and the coefficients are whatever the file has
DrapeTables ==
    { DrapeFallback,
      (125 :> 20 @@ 250 :> 45 @@ 500 :> 70 @@ 1000 :> 95 @@ 2000 :> 90),
      (125 :> 1500 @@ 250 :> 0 @@ 500 :> 0 @@ 1000 :> 0 @@ 2000 :> 0 @@ 4000 :> 0) }

\* the attribute drape_data before anything has assigned it
NoDrapeData == [assigned |-> FALSE, table |-> <<>>]

\* dict.get(key, default)
Get(d, key, default) == IF key \in DOMAIN d THEN d[key] ELSE default

----------------------------------------------------------------------------
(* TreatmentSimulator.calculate_rt60_with_panels.                          *)
(* self is the simulator object: its attributes at the time of the call.   *)
(* Every absorption coefficient of band freq is a numerator over the       *)
(* common denominator AlphaDen(self, freq) = 1000 * rt60_by_freq[freq] * S.*)

AlphaDen(self, freq) ==
    1000 * self.current_conditions.rt60_by_freq[freq] * self.room_surface_area

\* the metric Sabine constant 0.049 used with imperial dimensions
M_current_absorption_metric(self, freq) == 100 * 49 * self.room_volume

\* current_absorption[freq] = (0.161 * V) / (rt60 * S)
current_absorption(self, freq) == 100 * SabineMilli * self.room_volume

\* the panel term with the wrong sign
M_added_absorption_negated(self, thickness, count, freq) ==
    IF count > 0
        THEN 0 - count * self.panel_specs[thickness].size
                   * self.panel_specs[thickness].absorption_curve[freq]
                   * 10 * self.current_conditions.rt60_by_freq[freq]
        ELSE 0

\* count * size * absorption_curve[freq] / S, for one thickness class
added_absorption(self, thickness, count, freq) ==
    IF count > 0
        THEN count * self.panel_specs[thickness].size
                   * self.panel_specs[thickness].absorption_curve[freq]
                   * 10 * self.current_conditions.rt60_by_freq[freq]
        ELSE 0

\* the keys of the panel_counts dict in the order render_treatment_simulator
\* and the chart builders list them
DictOrder == <<"2_inch", "3_inch", "5_5_inch", "11_inch">>

\* the loop that keeps only the term of the class listed last
M_accumulate_overwrite(self, panel_counts, order, k, freq) ==
    IF k = 0 THEN 0
    ELSE added_absorption(self, order[k], panel_counts[order[k]], freq)

\* total_added_absorption[freq] after the first k items of
\* panel_counts.items(), the keys being listed in the given order
RECURSIVE accumulate(_, _, _, _, _)
accumulate(self, panel_counts, order, k, freq) ==
    IF k = 0 THEN 0
    ELSE accumulate(self, panel_counts, order, k - 1, freq)
         + added_absorption(self, order[k], panel_counts[order[k]], freq)

\* total_added_absorption[freq] after the loop over panel_counts.items()
total_added_absorption(self, panel_counts, order, freq) ==
    accumulate(self, panel_counts, order, Len(order), freq)

\* the drape term counted as absorption gained
M_drape_loss_gained(self, drape_absorption, drape_removal, freq) ==
    IF drape_removal
        THEN 0 - Get(drape_absorption, freq, 0) * DrapeArea
                   * 10 * self.current_conditions.rt60_by_freq[freq]
        ELSE 0

\* drape_absorption.get(freq, 0) * 40 / S if drape_removal else 0
drape_loss(self, drape_absorption, drape_removal, freq) ==
    IF drape_removal
        THEN Get(drape_absorption, freq, 0) * DrapeArea
                 * 10 * self.current_conditions.rt60_by_freq[freq]
        ELSE 0

\* the clamp left out
M_clamp_alpha_none(self, new_alpha, freq) == new_alpha

\* max(0.01, min(0.99, new_alpha)), on numerators over AlphaDen(self, freq)
clamp_alpha(self, new_alpha, freq) ==
    Max(10 * self.current_conditions.rt60_by_freq[freq] * self.room_surface_area,
        Min(990 * self.current_conditions.rt60_by_freq[freq]
                * self.room_surface_area,
            new_alpha))

\* new_alpha of one band, as a numerator over AlphaDen(self, freq)
new_alpha(self, panel_counts, order, drape_absorption, drape_removal, freq) ==
    clamp_alpha(self,
                current_absorption(self, freq)
                + total_added_absorption(self, panel_counts, order, freq)
                - drape_loss(self, drape_absorption, drape_removal, freq),
                freq)

\* the metric Sabine constant 0.049 used in the forward formula only
M_sabine_rt60_metric(self, alpha, freq) ==
    Frac(49 * self.room_volume * self.current_conditions.rt60_by_freq[freq],
         alpha)

\* new_rt60[freq] = (0.161 * V) / (new_alpha * S), in seconds
sabine_rt60(self, alpha, freq) ==
    Frac(SabineMilli * self.room_volume
            * self.current_conditions.rt60_by_freq[freq],
         alpha)

\* the whole method for a panel_counts dict whose keys are listed in the
\* given order: the AttributeError of line 221 when drape_data was never
\* assigned, else the returned dict (with the locals it went through)
calculate_rt60_listed(self, panel_counts, order, drape_removal) ==
    IF drape_removal /\ ~self.drape_data.assigned
        THEN [op |-> "calculate_rt60_with_panels",
              panel_counts |-> panel_counts, drape_removal |-> drape_removal,
              status |-> "AttributeError"]
        ELSE LET drape_absorption ==
                     IF drape_removal THEN self.drape_data.table ELSE <<>>
                 alpha == [freq \in SimBands |->
                             new_alpha(self, panel_counts, order,
                                       drape_absorption, drape_removal, freq)]
             IN  [op |-> "calculate_rt60_with_panels",
                  panel_counts |-> panel_counts,
                  drape_removal |-> drape_removal,
                  status |-> "ok",
                  total_added_absorption |->
                      [freq \in SimBands |->
                          Frac(total_added_absorption(self, panel_counts,
                                                      order, freq),
                               AlphaDen(self, freq))],
                  new_alpha |-> [freq \in SimBands |->
                                    Frac(alpha[freq], AlphaDen(self, freq))],
                  new_rt60 |-> [freq \in SimBands |->
                                    sabine_rt60(self, alpha[freq], freq)]]

\* calculate_rt60_with_panels(panel_counts, drape_removal) for a dict
\* written as the program's own callers write it
calculate_rt60_with_panels(self, panel_counts, drape_removal) ==
    calculate_rt60_listed(self, panel_counts, DictOrder, drape_removal)

\* the default of max_panels in create_cost_benefit_analysis
CostBenefitMaxPanels == 50

\* create_cost_benefit_analysis(max_panels): every prediction of its loop
\* (lines 490-516) is made with drape_removal = True; of the loop's calls
\* the last one (max_panels 11" panels) is kept
create_cost_benefit_analysis(self, max_panels) ==
    LET rt60_11 == calculate_rt60_with_panels(
                       self,
                       [t \in Thickness |->
                           IF t = "11_inch" THEN max_panels ELSE 0],
                       TRUE)
    IN  IF rt60_11.status # "ok"
            THEN [drape_removal |-> TRUE, max_panels |-> max_panels,
                  status |-> rt60_11.status]
            ELSE [drape_removal |-> TRUE, max_panels |-> max_panels,
                  status |-> "ok", rt60_11 |-> rt60_11.new_rt60]

----------------------------------------------------------------------------
(* TreatmentSimulator.calculate_sti_improvement.                           *)
(* The argument is x/100; the result is a numerator over StiDen.           *)

StiDen == 30000

calculate_sti_improvement(self, x) ==
    LET current_sti == self.current_conditions.average_sti * 300
        target_sti  == sti_target * 300
        \* 30 * min(1.0, rt60_improvement / 0.3)
        rt60_factor == Min(30, x)
        \* rt60_factor * (target_sti - current_sti) * 0.7
        sti_improvement ==
            rt60_factor * (sti_target - self.current_conditions.average_sti) * 7
    IN  Frac(Min(target_sti, current_sti + sti_improvement), StiDen)

\* the first k decimal digits of rem / den, for 0 <= rem < den
RECURSIVE Digits(_, _, _)
Digits(rem, den, k) ==
    IF k = 0 THEN 0
    ELSE LET d == (rem * 10) \div den
             value(j) == IF j = 1 THEN d * 1
                         ELSE IF j = 2 THEN d * 10 ELSE d * 100
         IN  value(k) + Digits((rem * 10) % den, den, k - 1)

\* a positive fraction of a second in milliseconds, truncated
Milli(x) == (x.num \div x.den) * 1000 + Digits(x.num % x.den, x.den, 3)

\* the Treatment Summary of render_treatment_simulator (lines 843-851):
\* the sums over the six bands of the RT60 before and after (six times the
\* np.mean, in milliseconds), the value handed to
\* calculate_sti_improvement (in hundredths, like its argument) and the
\* STI it returns
treatment_summary(self, panel_counts, new_rt60) ==
    LET total_panels == panel_counts["2_inch"] + panel_counts["3_inch"]
                        + panel_counts["5_5_inch"] + panel_counts["11_inch"]
        before(freq) == 10 * self.current_conditions.rt60_by_freq[freq]
        after(freq)  == Milli(new_rt60[freq])
        sum_before == before(125) + before(250) + before(500)
                      + before(1000) + before(2000) + before(4000)
        sum_after  == after(125) + after(250) + after(500)
                      + after(1000) + after(2000) + after(4000)
        \* ((mean before - mean after) / mean before) * 100
        avg_rt60_improvement ==
            ((sum_before - sum_after) * 100 * 100) \div sum_before
    IN  IF total_panels > 0
            THEN [shown |-> TRUE,
                  sum_before |-> sum_before,
                  sum_after |-> sum_after,
                  avg_rt60_improvement |-> avg_rt60_improvement,
                  predicted_sti |->
                      calculate_sti_improvement(self, avg_rt60_improvement)]
            ELSE [shown |-> FALSE]

\* a load that leaves the profile as it was
M_load_space_parameters_kept(self, space) == self

\* _load_space_parameters(space): the object with the room of the space
_load_space_parameters(self, space) ==
    [self EXCEPT
        !.room_volume = SpaceParameters(space).room_volume,
        !.room_surface_area = SpaceParameters(space).room_surface_area,
        !.current_conditions = SpaceParameters(space).current_conditions]

\* the simulator object as it is now
Simulator ==
    [room_volume |-> room_volume,
     room_surface_area |-> room_surface_area,
     current_conditions |-> current_conditions,
     drape_data |-> drape_data,
     panel_specs |-> panel_specs]

----------------------------------------------------------------------------
(* RT60HeatmapAnalyzer (Studio 8): priority fill.                          *)

\* self.frequency_bands of both heatmap analyzers, in list order
frequency_bands == <<125, 250, 500, 1000, 2000, 4000, 8000>>
Bands7 == {frequency_bands[i] : i \in 1..Len(frequency_bands)}

\* the attributes an RT60HeatmapAnalyzer has once __init__ has returned
\* (__init__ and load_smaart_rt60_data assign these and no others)
analyzer_attributes ==
    {"room_width_EW", "room_length_NS", "room_height", "frequency_bands",
     "frequency_labels", "measurement_positions", "actual_rt60_data"}

ZoneNames == {"corner_traps", "midpoint_panels", "ceiling_panels",
              "wall_panels", "cloud_panels"}

\* Priority 1: corner_traps = min(4, panel_count)
M_corner_traps_uncapped(panel_count) == 4

corner_traps(panel_count) == Min(4, panel_count)

\* the locals of get_panel_absorption_by_count once every stage has run
priority_fill(panel_count) ==
    LET remaining1 == panel_count - corner_traps(panel_count)
        midpoint   == IF remaining1 > 0 THEN Min(3, remaining1) ELSE 0
        remaining2 == remaining1 - midpoint
        ceiling    == IF remaining2 > 0 THEN Min(9, remaining2) ELSE 0
        remaining3 == remaining2 - ceiling
        wall       == IF remaining3 > 0 THEN Min(4, remaining3) ELSE 0
        remaining4 == remaining3 - wall
        cloud      == IF remaining4 > 0 THEN remaining4 ELSE 0
    IN  [corner_traps |-> corner_traps(panel_count),
         midpoint_panels |-> midpoint,
         ceiling_panels |-> ceiling,
         wall_panels |-> wall,
         cloud_panels |-> cloud]

\* get_panel_absorption_by_count(panel_count).  absorption_by_freq[freq] is
\* the number of 5.5" and of 3" panels whose panel_area * coefficient has
\* been added for that band; zones are the per-zone locals assigned so far.
\* The first statement that reads self.panel_area (line 179) raises
\* AttributeError when the object has no such attribute.
get_panel_absorption_by_count(panel_count) ==
    LET none == [z \in ZoneNames |-> 0]
        zero == [freq \in Bands7 |-> [n_5_5_inch |-> 0, n_3_inch |-> 0]]
        fill == priority_fill(panel_count)
    IN  IF panel_count = 0 THEN
            [op |-> "get_panel_absorption_by_count",
             panel_count |-> panel_count, status |-> "ok",
             zones |-> none, absorption_by_freq |-> zero]
        ELSE IF ~({"panel_area", "panel_absorption_5_5_inch"}
                    \subseteq analyzer_attributes) THEN
            [op |-> "get_panel_absorption_by_count",
             panel_count |-> panel_count, status |-> "AttributeError",
             zones |-> [none EXCEPT !.corner_traps = corner_traps(panel_count)],
             absorption_by_freq |-> zero]
        ELSE IF fill.wall_panels > 0
                /\ "panel_absorption_3_inch" \notin analyzer_attributes THEN
            [op |-> "get_panel_absorption_by_count",
             panel_count |-> panel_count, status |-> "AttributeError",
             zones |-> [fill EXCEPT !.cloud_panels = 0],
             absorption_by_freq |-> zero]
        ELSE
            [op |-> "get_panel_absorption_by_count",
             panel_count |-> panel_count, status |-> "ok",
             zones |-> fill,
             absorption_by_freq |->
                [freq \in Bands7 |->
                    [n_5_5_inch |-> fill.corner_traps + fill.midpoint_panels
                                    + fill.ceiling_panels,
                     n_3_inch |-> fill.wall_panels + fill.cloud_panels]]]

\* the keys of RT60HeatmapAnalyzer.measurement_positions
AnalyzerPositions ==
    {"HostA", "HostC", "Ceiling", "SECorner", "MidRoom", "NECorner",
     "SWCorner", "NWCorner"}

\* what calculate_baseline_absorption would store in baseline_absorption,
\* in hundredths of a sabin (areas in 1/100 sq ft, coefficients in 1/100)
calculate_baseline_absorption(freq) ==
    LET floor_area == 64094
        ceiling_area == floor_area
        total_wall_area == 76776 + 65450
        coefficient ==
            (125  :> [floor |-> 2, ceiling |-> 14, walls |-> 3]  @@
             250  :> [floor |-> 2, ceiling |-> 10, walls |-> 4]  @@
             500  :> [floor |-> 3, ceiling |-> 6,  walls |-> 5]  @@
             1000 :> [floor |-> 4, ceiling |-> 4,  walls |-> 6]  @@
             2000 :> [floor |-> 4, ceiling |-> 4,  walls |-> 8]  @@
             4000 :> [floor |-> 5, ceiling |-> 3,  walls |-> 10] @@
             8000 :> [floor |-> 5, ceiling |-> 3,  walls |-> 12])
    IN  (floor_area * coefficient[freq].floor
         + ceiling_area * coefficient[freq].ceiling
         + total_wall_area * coefficient[freq].walls) \div 100

\* get_position_factor(position_name, frequency), in 1/10000
get_position_factor(position_name, frequency) ==
    LET base_factors ==
            ("HostA" :> 100 @@ "HostC" :> 102 @@ "Ceiling" :> 92 @@
             "SECorner" :> 115 @@ "MidRoom" :> 88 @@ "NECorner" :> 118 @@
             "SWCorner" :> 112 @@ "NWCorner" :> 108)
        corner == position_name \in {"SECorner", "NECorner", "SWCorner",
                                     "NWCorner"}
    IN  IF frequency <= 250 /\ corner THEN base_factors[position_name] * 125
        ELSE IF frequency >= 2000 THEN base_factors[position_name] * 95
        ELSE base_factors[position_name] * 100

\* adjusted_absorption = total_absorption * position_factor (line 152),
\* total_absorption being baseline plus panels, in 1/1000000 sabin
adjusted_absorption(baseline, panel_absorption, position_factor) ==
    (baseline + panel_absorption) * position_factor

\* RT60HeatmapAnalyzer.calculate_rt60_with_panels(panel_count): the
\* AttributeError of get_panel_absorption_by_count, else that of the first
\* read of an attribute the object does not have (baseline_absorption at
\* line 148, room_volume at line 155); adjusted_absorption holds the
\* locals computed before the error
analyzer_calculate_rt60_with_panels(panel_count) ==
    LET panel_absorption == get_panel_absorption_by_count(panel_count)
    IN  IF panel_absorption.status # "ok" THEN
            [op |-> "analyzer_calculate_rt60_with_panels",
             panel_count |-> panel_count, status |-> "AttributeError",
             missing |-> "panel_area"]
        ELSE IF "baseline_absorption" \notin analyzer_attributes THEN
            [op |-> "analyzer_calculate_rt60_with_panels",
             panel_count |-> panel_count, status |-> "AttributeError",
             missing |-> "baseline_absorption"]
        ELSE
            [op |-> "analyzer_calculate_rt60_with_panels",
             panel_count |-> panel_count, status |-> "AttributeError",
             missing |-> "room_volume",
             adjusted_absorption |->
                [pos_name \in AnalyzerPositions |->
                    [freq \in Bands7 |->
                        adjusted_absorption(
                            calculate_baseline_absorption(freq), 0,
                            get_position_factor(pos_name, freq))]]]

\* the thickness, in tenths of an inch, of the absorption table that
\* get_panel_absorption_by_count uses for each zone
analyzer_thickness ==
    [corner_traps |-> 55, midpoint_panels |-> 55, ceiling_panels |-> 55,
     wall_panels |-> 30, cloud_panels |-> 30]

----------------------------------------------------------------------------
(* Enhanced3DVisualizer: the treatment panels drawn in the 3D model.  Each  *)
(* zone holds the number of _create_rectangular_panel calls made for it;   *)
(* thickness is the thickness argument of those calls, tenths of an inch.  *)

\* the gate of a zone: if panel_count > gate
gate_open(panel_count, gate) == panel_count > gate

\* Enhanced3DVisualizer._add_treatment_panels_studio8(fig, panel_count, ...)
_add_treatment_panels_studio8(panel_count) ==
    LET corner   == Min(4, panel_count)
        used1    == Min(4, panel_count)
        midpoint == IF gate_open(panel_count, 4)
                        THEN Min(3, panel_count - used1) ELSE 0
        used2    == used1 + midpoint
        ceiling  == IF gate_open(panel_count, 8)
                        THEN Min(9, panel_count - used2) ELSE 0
        used3    == used2 + ceiling
        north    == IF gate_open(panel_count, 17)
                        THEN Min(4, panel_count - used3) ELSE 0
        used4    == used3 + north
        e_wall   == IF gate_open(panel_count, 21) /\ panel_count - used4 >= 1
                        THEN 1 ELSE 0
        used5    == used4 + e_wall
        cloud    == IF gate_open(panel_count, 22)
                        THEN Min(3, panel_count - used5) ELSE 0
    IN  [op |-> "_add_treatment_panels_studio8",
         panel_count |-> panel_count,
         zones |-> [corner_traps |-> corner, high_midpoint |-> midpoint,
                    ceiling_center |-> ceiling, north_wall |-> north,
                    e_wall_panel |-> e_wall, grid_clouds |-> cloud],
         thickness |-> [corner_traps |-> 110, high_midpoint |-> 55,
                        ceiling_center |-> 55, north_wall |-> 30,
                        e_wall_panel |-> 30, grid_clouds |-> 30],
         panels_used |-> used5 + cloud]

\* Enhanced3DVisualizer._add_treatment_panels_hub_corrected(fig,
\* panel_count, ...)
_add_treatment_panels_hub_corrected(panel_count) ==
    LET ceiling_count == Min(3, panel_count)
        used1 == ceiling_count
        corner_count == IF panel_count > used1
                            THEN Min(2, panel_count - used1) ELSE 0
        used2 == used1 + corner_count
        available_wall_panels ==
            IF panel_count > used2 THEN Min(3, panel_count - used2) ELSE 0
    IN  [op |-> "_add_treatment_panels_hub_corrected",
         panel_count |-> panel_count,
         zones |-> [ceiling_panels |-> ceiling_count,
                    corner_traps |-> corner_count,
                    wall_panels |-> available_wall_panels],
         thickness |-> [ceiling_panels |-> 55, corner_traps |-> 55,
                        wall_panels |-> 30],
         panels_used |-> used2 + available_wall_panels]

----------------------------------------------------------------------------
(* FrequencyResponseExplorer.create_adjusted_degradation_heatmap:          *)
(* allocation of panels to positions by priority score (scores in tenths). *)

\* the keys of position_priority in insertion order: a dict keeps the place
\* of the first row of a position
RECURSIVE dict_keys(_)
dict_keys(rows) ==
    IF rows = <<>> THEN <<>>
    ELSE LET front == dict_keys(SubSeq(rows, 1, Len(rows) - 1))
             last  == rows[Len(rows)].position
         IN  IF \E i \in 1..Len(front) : front[i] = last
                THEN front ELSE Append(front, last)

\* position_priority[pos_name]: the score of the last row of the position
position_priority(rows, pos_name) ==
    LET i == CHOOSE i \in 1..Len(rows) :
                /\ rows[i].position = pos_name
                /\ \A j \in (i + 1)..Len(rows) : rows[j].position # pos_name
    IN  rows[i].priority_score

\* sorted(position_priority.items(), key=lambda x: x[1], reverse=True):
\* descending score; equal scores keep their dict order (the sort is stable)
sorted_priorities(rows) ==
    LET keys == dict_keys(rows)
        score(i) == position_priority(rows, keys[i])
        place(i) == 1 + Cardinality({j \in 1..Len(keys) :
                            \/ score(j) > score(i)
                            \/ score(j) = score(i) /\ j < i})
    IN  [k \in 1..Len(keys) |->
            LET i == CHOOSE i \in 1..Len(keys) : place(i) = k
            IN  [position |-> keys[i], priority |-> score(i)]]

\* the panels a position of the given priority gets when panel_count > 15
M_allocated_unbounded(priority, remaining_panels) ==
    IF priority >= 60 THEN 6
    ELSE IF priority >= 50 THEN 4
    ELSE IF priority >= 40 THEN 3
    ELSE 2

allocated(priority, remaining_panels) ==
    IF priority >= 60 THEN Min(6, remaining_panels)
    ELSE IF priority >= 50 THEN Min(4, remaining_panels)
    ELSE IF priority >= 40 THEN Min(3, remaining_panels)
    ELSE Min(2, remaining_panels)

\* the loop over sorted_priorities of the branch panel_count > 15:
\* panels_per_position of the first k positions, and what then remains
RECURSIVE allocate_high(_, _, _)
allocate_high(sorted, k, panel_count) ==
    IF k = 0 THEN [panels |-> <<>>, remaining_panels |-> panel_count]
    ELSE LET before == allocate_high(sorted, k - 1, panel_count)
             give   == IF before.remaining_panels <= 0 THEN 0
                       ELSE allocated(sorted[k].priority,
                                      before.remaining_panels)
         IN  [panels |-> Append(before.panels, give),
              remaining_panels |-> before.remaining_panels - give]

\* panels_per_position, as a sequence aligned with sorted_priorities
panels_per_position(rows, panel_count) ==
    LET sorted == sorted_priorities(rows)
    IN  IF panel_count <= 15
            THEN [k \in 1..Len(sorted) |-> IF k <= panel_count THEN 1 ELSE 0]
            ELSE allocate_high(sorted, Len(sorted), panel_count).panels

priority_allocation(rows, panel_count) ==
    [op |-> "create_adjusted_degradation_heatmap",
     panel_count |-> panel_count,
     rows |-> rows,
     sorted_priorities |-> sorted_priorities(rows),
     panels_per_position |-> panels_per_position(rows, panel_count)]

\* STI values of a log are hundredths; an STI after treatment is a
\* numerator over StiScale
StiScale == 40000

\* improvement_per_panel, thousandths per band of sti_freq_bands
improvement_per_panel == <<15, 18, 22, 25, 30, 28, 25>>

\* position_name.replace(' (Reference)', '').replace(' (Talent)', '')
lookup_name(position_name) ==
    IF position_name = "HostA (Reference)" THEN "HostA"
    ELSE IF position_name = "HostC (Talent)" THEN "HostC"
    ELSE position_name

\* panels_per_position.get(lookup_name, 0)
panel_allocation(allocation, position_name) ==
    LET at == {k \in 1..Len(allocation.sorted_priorities) :
                  allocation.sorted_priorities[k].position
                      = lookup_name(position_name)}
    IN  IF at = {} THEN 0
        ELSE allocation.panels_per_position[CHOOSE k \in at : TRUE]

\* the improvement taken away
M_new_sti_worsened(original_sti, ref_sti, improvement_rate, allocation) ==
    Min(ref_sti * 400,
        original_sti * 400 - improvement_rate * allocation * (40 - allocation))

\* improvement = improvement_rate * panel_allocation * (1 - panel_allocation/40)
\* new_sti = min(ref_sti, original_sti + improvement)
new_sti(original_sti, ref_sti, improvement_rate, allocation) ==
    Min(ref_sti * 400,
        original_sti * 400 + improvement_rate * allocation * (40 - allocation))

\* max(0, ((ref_val - sti_val) / ref_val) * 100) if ref_val > 0 else 0,
\* of two numerators over the same denominator
degradation_percent(sti_val, ref_val) ==
    IF ref_val > 0
        THEN Frac(Max(0, (ref_val - sti_val) * 100), ref_val)
        ELSE Frac(0, 1)

\* one row of sti_matrix: the improved STI and the degradation per band
sti_degradation_row(sti_values, reference_sti, allocation) ==
    IF sti_values = <<>>
        THEN [i \in 1..7 |-> [parsed |-> FALSE,
                              degradation |-> Frac(0, 1)]]
        ELSE [i \in 1..7 |->
                LET improved == new_sti(sti_values[i], reference_sti[i],
                                        improvement_per_panel[i], allocation)
                IN  [parsed |-> TRUE,
                     improved_sti |-> improved,
                     degradation |->
                        degradation_percent(improved, reference_sti[i] * 400)]]

\* create_adjusted_degradation_heatmap(panel_count) over the priority table
\* rows and the Smaart logs: smaart.reference_sti is the STI line of the
\* HostA log, smaart.files the other logs found, as [position_name,
\* sti_values]; <<>> stands for a log without a usable STI line
create_adjusted_degradation_heatmap(rows, panel_count, smaart) ==
    IF smaart.reference_sti = <<>> THEN
        [op |-> "create_adjusted_degradation_heatmap",
         panel_count |-> panel_count, rows |-> rows, status |-> "error"]
    ELSE
        LET allocation == priority_allocation(rows, panel_count)
            files == <<[position_name |-> "HostA (Reference)",
                        sti_values |-> smaart.reference_sti]>>
                     \o smaart.files
        IN  [op |-> "create_adjusted_degradation_heatmap",
             panel_count |-> panel_count,
             rows |-> rows,
             status |-> "ok",
             sorted_priorities |-> allocation.sorted_priorities,
             panels_per_position |-> allocation.panels_per_position,
             reference_sti |-> smaart.reference_sti,
             files |-> files,
             sti_matrix |->
                [k \in 1..Len(files) |->
                    sti_degradation_row(
                        files[k].sti_values, smaart.reference_sti,
                        panel_allocation(allocation,
                                         files[k].position_name))]]

----------------------------------------------------------------------------
(* The Hub: measured RT60 from the Smaart logs.                            *)
(* A log file is [exists, rt60]: whether the file exists and, per band, the *)
(* RT60 of its line in hundredths of a second, where 0 stands for a band   *)
(* with no valid line (no line at all, or a value <= 0).                   *)

\* measurement_positions of RT60HeatmapAnalyzerHub / file_to_position
HubPositions == {"MidRoom", "BackCorner", "Chair1", "Chair2", "CeilingCorner"}

\* parse_smaart_file / the parsing loop of load_hub_rt60_data: keeps the
\* bands of frequency_bands whose value is > 0
parse_smaart_file(file) ==
    [freq \in {f \in Bands7 : file.rt60[f] > 0} |-> file.rt60[freq]]

\* load_smaart_rt60_data / load_hub_rt60_data: a position is stored only
\* when its file exists and at least one band was parsed
load_smaart_rt60_data(files) ==
    [pos \in {q \in HubPositions :
                /\ files[q].exists
                /\ DOMAIN parse_smaart_file(files[q]) # {}}
        |-> parse_smaart_file(files[pos])]

\* exp(-0.08 * panel_count) in thousandths, as the panel_count-th power of
\* exp(-0.08) = 0.923, truncated at each step
RECURSIVE exp_decay(_)
exp_decay(panel_count) ==
    IF panel_count = 0 THEN 1000
    ELSE (exp_decay(panel_count - 1) * 923) \div 1000

\* get_panel_improvement_factor(panel_count), as a numerator over 100000
M_improvement_factor_nonzero(panel_count) ==
    Min(45 * (1000 - exp_decay(panel_count + 1)), 45000)

get_panel_improvement_factor(panel_count) ==
    IF panel_count = 0 THEN 0
    ELSE Min(45 * (1000 - exp_decay(panel_count)), 45000)

\* get_position_panel_effectiveness(position_name, frequency), hundredths
get_position_panel_effectiveness(position_name, frequency) ==
    LET base_effectiveness ==
            ("MidRoom" :> 9 @@ "BackCorner" :> 13 @@ "Chair1" :> 11 @@
             "Chair2" :> 11 @@ "CeilingCorner" :> 14)
        freq_factor ==
            IF frequency <= 250
                   /\ position_name \in {"BackCorner", "CeilingCorner"}
                THEN 14 ELSE 10
    IN  base_effectiveness[position_name] * freq_factor

\* the RT60 floor of the Hub analyzer, 0.15 s
HubFloor == Frac(15, 100)

\* improved_rt60 = max(baseline_rt60 * (1.0 - panel_reduction), 0.15)
M_improved_rt60_unfloored(baseline_rt60, panel_reduction) ==
    Frac(baseline_rt60 * (10000000 - panel_reduction), 1000000000)

improved_rt60(baseline_rt60, panel_reduction) ==
    LET improved == Frac(baseline_rt60 * (10000000 - panel_reduction),
                         1000000000)
    IN  IF FracLeq(HubFloor, improved) THEN improved ELSE HubFloor

\* RT60HeatmapAnalyzerHub.calculate_rt60_with_panels(panel_count): every
\* cell carries the branch that produced it
hub_calculate_rt60_with_panels(panel_count) ==
    LET panel_improvement_factor == get_panel_improvement_factor(panel_count)
        cell(pos_name, freq) ==
            IF pos_name \in DOMAIN actual_rt60_data THEN
                IF freq \in DOMAIN actual_rt60_data[pos_name] THEN
                    [value |-> improved_rt60(
                        actual_rt60_data[pos_name][freq],
                        panel_improvement_factor
                          * get_position_panel_effectiveness(pos_name, freq)),
                     source |-> "measured"]
                ELSE [value |-> Frac(50, 100), source |-> "default"]
            ELSE [value |-> Frac(60, 100), source |-> "default"]
    IN  [op |-> "hub_calculate_rt60_with_panels",
         panel_count |-> panel_count,
         status |-> "ok",
         rt60_data |-> [pos_name \in HubPositions |->
                           [freq \in Bands7 |-> cell(pos_name, freq)]]]

\* AcousticDashboard.create_hub_theoretical_heatmap(panel_count): the
\* z_values of the figure, or the st.error / None of an empty data set
create_hub_theoretical_heatmap(panel_count) ==
    LET hub_rt60_data == load_smaart_rt60_data(smaart_hub)
        \* min(0.6, panel_count * 0.04), in hundredths
        panel_reduction_factor == Min(60, panel_count * 4)
        cell(pos_name, freq) ==
            IF freq \in DOMAIN hub_rt60_data[pos_name] THEN
                [value |-> Frac(hub_rt60_data[pos_name][freq]
                                  * (100 - panel_reduction_factor), 10000),
                 source |-> "measured"]
            ELSE [value |-> Frac(40, 100), source |-> "default"]
    IN  IF DOMAIN hub_rt60_data = {} THEN
            [op |-> "create_hub_theoretical_heatmap",
             panel_count |-> panel_count,
             status |-> "error"]
        ELSE
            [op |-> "create_hub_theoretical_heatmap",
             panel_count |-> panel_count,
             status |-> "ok",
             z_values |-> [pos_name \in DOMAIN hub_rt60_data |->
                              [freq \in Bands7 |-> cell(pos_name, freq)]]]

----------------------------------------------------------------------------
(* calculate_sti_degradation of the Hub data generators.  position_data    *)
(* maps 'alcons_s' to %Alcons in tenths and 't_mid' to seconds in          *)
(* hundredths, a key being absent when the log has no such line.  STI is a *)
(* numerator over 600.                                                     *)

calculate_sti_degradation(position_data) ==
    LET \* 0.95 * 600
        reference_sti == 570
        \* defaults 3.0 and 0.4
        alcons == Get(position_data, "alcons_s", 30)
        t_mid  == Get(position_data, "t_mid", 40)
        \* max(0.3, 1 - (alcons/15) - max(0, (t_mid - 0.3)/2))
        estimated_sti == Max(180, 600 - 4 * alcons - 3 * Max(0, t_mid - 30))
    IN  [estimated_sti |-> Frac(estimated_sti, 600),
         \* (1 - estimated_sti / reference_sti) * 100
         degradation_percent |->
             Frac((reference_sti - estimated_sti) * 100, reference_sti)]

----------------------------------------------------------------------------
(* health_check.py: the loop of attempts.  health is the process: its      *)
(* place in the script, the attempts made, the status it exited with and    *)
(* whether an attempt received HTTP 200.                                    *)

max_attempts == 30

\* the process before the script starts
NotStarted ==
    [pc |-> "loop", attempts |-> 0, exit_status |-> -1,
     received_200 |-> FALSE, last |-> "none"]

\* what requests.get(..., timeout=5) gives: a status code, or an exception
Responses == {"200", "404", "503", "ConnectionError", "Timeout"}

\* one more attempt after the last
M_range_has_next_one_more(i) == i <= max_attempts

\* for i in range(max_attempts): whether the loop has an i-th iteration
range_has_next(i) == i < max_attempts

\* the exception raised inside the try block, lines 8-11: requests.get
\* raises, or sys.exit(0) raises SystemExit after a 200
raised(response) ==
    IF response \in {"ConnectionError", "Timeout"} THEN response
    ELSE IF response = "200" THEN "SystemExit"
    ELSE "none"

\* the bare except of line 12 catches every exception, SystemExit included
caught(exception) == exception # "none"

\* one iteration of the loop, lines 7-14
attempt(process, response) ==
    LET exception == raised(response)
        tried == [process EXCEPT !.attempts = @ + 1,
                                 !.last = response,
                                 !.received_200 = @ \/ response = "200"]
    IN  IF exception = "SystemExit" /\ ~caught(exception)
            THEN [tried EXCEPT !.pc = "exited", !.exit_status = 0]
            ELSE tried

\* lines 16-17, after the loop
give_up(process) == [process EXCEPT !.pc = "exited", !.exit_status = 1]

----------------------------------------------------------------------------
(* AcousticDashboard.render_dashboard: one run of the script.  session     *)
(* is st.session_state as a map from the keys it holds to their values.    *)
(* A widget returns what the user picked in it for this run, else the      *)
(* value the script offers it.                                             *)

\* the default and the largest Panel Count of each space
HubDefaultCount == 8
Studio8DefaultCount == 25
HubMaxPanels == 16
Studio8MaxPanels == 32

page_options ==
    <<"Summary", "Data Explorer", "3D Room Model", "Frequency Response",
      "Treatment Simulator", "Complete Analysis">>
Pages == {page_options[i] : i \in 1..Len(page_options)}

\* st.session_state of a new browser session
NoSession == <<>>

Has(session, key) == key \in DOMAIN session

\* session[key] = value
Put(session, key, value) ==
    [k \in DOMAIN session \cup {key} |->
        IF k = key THEN value ELSE session[k]]

\* if key not in st.session_state: st.session_state[key] = value
SetDefault(session, key, value) ==
    IF Has(session, key) THEN session ELSE Put(session, key, value)

default_count(space) ==
    IF space = "The Hub" THEN HubDefaultCount ELSE Studio8DefaultCount

max_panels(space) ==
    IF space = "The Hub" THEN HubMaxPanels ELSE Studio8MaxPanels

\* st.number_input("Panel Count", min_value=0, max_value=max_panels,
\* value=session.panel_count) followed by the write-back of its result:
\* the input refuses a value above max_value with an exception, else it
\* returns what the user typed in it (typed < 0: nothing typed)
panel_count_input(session, space, typed) ==
    IF session.panel_count > max_panels(space)
        THEN [session |-> session,
              outcome |-> "StreamlitValueAboveMaxError"]
        ELSE [session |->
                 Put(session, "panel_count",
                     IF typed \in 0..max_panels(space) THEN typed
                     ELSE session.panel_count),
              outcome |-> "ok"]

\* a figure, by what it was generated for; None
Fig(kind, space, panel_count) ==
    [made |-> TRUE, kind |-> kind, space |-> space,
     panel_count |-> panel_count]
NoFig == [made |-> FALSE]

\* what a run has drawn with st.plotly_chart
NoCharts == [drawn |-> FALSE]

\* the 3D column of render_3d_model, lines 684-730 (the visualizer loaded):
\* the figure drawn and the session after it
model_column(session, space) ==
    LET panel_count == session.panel_count
        regenerate == \/ ~session.cached_3d_fig.made
                      \/ session.last_panel_count_3d # panel_count
        fig == IF regenerate THEN Fig("3d", space, panel_count)
               ELSE session.cached_3d_fig
    IN  [session |->
            IF regenerate
                THEN Put(Put(session, "cached_3d_fig", fig),
                         "last_panel_count_3d", panel_count)
                ELSE session,
         fig |-> fig,
         reused |-> ~regenerate]

\* the RT60 column of render_3d_model, lines 735-765 (the analyzer loaded):
\* Studio 8 caches its heatmap, The Hub draws a new one in every run
rt60_column(session, space) ==
    LET panel_count == session.panel_count
        regenerate == \/ ~session.cached_rt60_fig.made
                      \/ session.last_panel_count # panel_count
        fig == IF space = "Studio 8" /\ ~regenerate
                   THEN session.cached_rt60_fig
                   ELSE Fig("rt60", space, panel_count)
    IN  [session |->
            IF space = "Studio 8" /\ regenerate
                THEN Put(Put(session, "cached_rt60_fig", fig),
                         "last_panel_count", panel_count)
                ELSE session,
         fig |-> fig,
         reused |-> space = "Studio 8" /\ ~regenerate]

\* render_3d_model(space), lines 630-765
render_3d_model(session, space, typed) ==
    LET s1 == SetDefault(
                SetDefault(
                  SetDefault(
                    SetDefault(
                      SetDefault(session, "last_panel_count_3d",
                                 Studio8DefaultCount),
                      "cached_3d_fig", NoFig),
                    "last_panel_count", Studio8DefaultCount),
                  "cached_rt60_fig", NoFig),
                "panel_count", Studio8DefaultCount)
        shown == panel_count_input(s1, space, typed)
        model == model_column(shown.session, space)
        rt60  == rt60_column(model.session, space)
        panel_input == [called |-> TRUE, value |-> s1.panel_count,
                        max_value |-> max_panels(space)]
    IN  IF shown.outcome # "ok"
            THEN [session |-> shown.session,
                  outcome |-> shown.outcome,
                  panel_input |-> panel_input,
                  charts |-> NoCharts]
            ELSE [session |-> rt60.session,
                  outcome |-> "ok",
                  panel_input |-> panel_input,
                  charts |-> [drawn |-> TRUE,
                              fig_3d |-> model.fig,
                              reused_3d |-> model.reused,
                              rt60_fig |-> rt60.fig,
                              reused_rt60 |-> rt60.reused]]

\* the header of render_frequency_explorer(space), lines 1118-1192
render_frequency_explorer(session, space, pick_analysis, typed) ==
    LET s1 == SetDefault(session, "freq_analysis_type",
                         "STI Degradation Heatmap")
        hub == s1.selected_space = "The Hub"
        analysis_options ==
            IF hub THEN {"Magnitude Response", "Phase Response",
                         "Modal Stack Analysis"}
            ELSE {"STI Degradation Heatmap", "Magnitude Response",
                  "Phase Response", "Modal Stack Analysis"}
        s2 == IF hub /\ s1.freq_analysis_type = "STI Degradation Heatmap"
                  THEN Put(s1, "freq_analysis_type", "Magnitude Response")
                  ELSE s1
        analysis_type ==
            IF pick_analysis \in analysis_options THEN pick_analysis
            ELSE s2.freq_analysis_type
        s3 == Put(s2, "freq_analysis_type", analysis_type)
        current_space == s3.selected_space
        s4 == SetDefault(s3, "panel_count", default_count(current_space))
        s5 == IF s4.panel_count > max_panels(current_space)
                  THEN Put(s4, "panel_count", default_count(current_space))
                  ELSE s4
        shown == panel_count_input(s5, current_space, typed)
    IN  IF analysis_type = "STI Degradation Heatmap"
            THEN [session |-> shown.session,
                  outcome |-> shown.outcome,
                  panel_input |-> [called |-> TRUE, value |-> s5.panel_count,
                                   max_value |-> max_panels(current_space)],
                  charts |-> NoCharts]
            ELSE [session |-> s3, outcome |-> "ok",
                  panel_input |-> [called |-> FALSE],
                  charts |-> NoCharts]

\* the cached figures dropped
M_space_changed_keeps_figures(session, selected_space) ==
    Put(Put(session, "selected_space", selected_space),
        "panel_count", default_count(selected_space))

\* panel_count left as it is
M_space_changed_keeps_count(session, selected_space) ==
    LET s1 == Put(session, "selected_space", selected_space)
        s2 == IF Has(s1, "cached_3d_fig")
                  THEN Put(s1, "cached_3d_fig", NoFig) ELSE s1
    IN  IF Has(s2, "cached_rt60_fig")
            THEN Put(s2, "cached_rt60_fig", NoFig) ELSE s2

\* the branch selected_space != st.session_state.selected_space of
\* render_dashboard, lines 299-309: the session it leaves to the rerun
space_changed(session, selected_space) ==
    LET s1 == Put(session, "selected_space", selected_space)
        s2 == IF Has(s1, "cached_3d_fig")
                  THEN Put(s1, "cached_3d_fig", NoFig) ELSE s1
        s3 == IF Has(s2, "cached_rt60_fig")
                  THEN Put(s2, "cached_rt60_fig", NoFig) ELSE s2
    IN  Put(s3, "panel_count", default_count(selected_space))

\* render_dashboard: url_space and url_page are the query parameters, the
\* picks are what the user chose in the selectboxes ("keep": nothing)
render_dashboard(session, url_space, url_page, pick_space, pick_page, pick_analysis, typed) ==
    LET s1 == SetDefault(SetDefault(session, "selected_space", url_space),
                         "viz_type", url_page)
        selected_space ==
            IF pick_space \in Spaces THEN pick_space
            ELSE IF s1.selected_space \in Spaces THEN s1.selected_space
            ELSE "Studio 8"
        viz_type ==
            IF pick_page \in Pages THEN pick_page
            ELSE IF s1.viz_type \in Pages THEN s1.viz_type
            ELSE "Summary"
        s2 == Put(s1, "viz_type", viz_type)
        page == IF viz_type = "3D Room Model"
                    THEN render_3d_model(s2, selected_space, typed)
                ELSE IF viz_type = "Frequency Response"
                    THEN render_frequency_explorer(s2, selected_space,
                                                   pick_analysis, typed)
                ELSE [session |-> s2, outcome |-> "ok",
                      panel_input |-> [called |-> FALSE],
                      charts |-> NoCharts]
    IN  IF selected_space # s1.selected_space
            THEN [session |-> space_changed(s1, selected_space),
                  space |-> selected_space,
                  outcome |-> "rerun",
                  panel_input |-> [called |-> FALSE],
                  charts |-> NoCharts]
            ELSE [session |-> page.session,
                  space |-> selected_space,
                  outcome |-> page.outcome,
                  panel_input |-> page.panel_input,
                  charts |-> page.charts]

----------------------------------------------------------------------------
(* Bounds of the model.                                                    *)

\* panel counts 0..SmallCount are all tried, then the widget maximum, then
\* one count far beyond what the room can hold
SmallCount == 1
LargeCount == 200
\* the arguments of calculate_sti_improvement are k * StiStep / 100
StiStep == 10
MaxStiSteps == 50
\* the largest panel_count handed to the heatmap code
MaxPanelRequest == 33
\* the longest treatment-priority table
MaxRows == 3

\* %Alcons values are k * AlconsStep / 10, T_mid values k * TMidStep / 100
AlconsStep == 5
MaxAlconsSteps == 40
TMidStep == 10
MaxTMidSteps == 20

\* max_value of the 11" number_input and of the other number_inputs
Max11Inch == 20
MaxPanelInput == 50

PanelCountValues == (0..SmallCount) \cup {MaxPanelInput, LargeCount}
Allocations == [Thickness -> PanelCountValues]
StiInputs == {k * StiStep : k \in (-MaxStiSteps)..MaxStiSteps}

\* the session defaults of the number inputs (render_treatment_simulator)
DefaultPanels(space) ==
    IF space = "Studio 8"
        THEN ("2_inch" :> 3 @@ "3_inch" :> 6 @@ "5_5_inch" :> 12 @@ "11_inch" :> 4)
        ELSE ("2_inch" :> 0 @@ "3_inch" :> 4 @@ "5_5_inch" :> 4 @@ "11_inch" :> 0)

\* the values of the four number inputs in one rerun: what the user typed
\* when the inputs accept it (a number input refuses a value above its
\* max_value), else the session defaults; The Hub has no 11" input and
\* uses panel_11_count = 0
WidgetPanels(space) ==
    IF /\ args.kind = "rt60"
       /\ \A t \in Thickness : args.panel_counts[t] <= MaxPanelInput
       /\ args.panel_counts["11_inch"] <= Max11Inch
        THEN [t \in Thickness |->
                IF t = "11_inch" /\ space = "The Hub" THEN 0
                ELSE args.panel_counts[t]]
        ELSE [t \in Thickness |->
                IF t = "11_inch" /\ space = "The Hub" THEN 0
                ELSE DefaultPanels(space)[t]]

PriorityPositions == {"HostC", "MidRoom", "NECorner-High"}
PriorityScores == {35, 45, 55, 65}
PriorityRow == [position : PriorityPositions, priority_score : PriorityScores]
PriorityTables == UNION {[1..n -> PriorityRow] : n \in 0..MaxRows}

\* measured RT60 values of a log line, hundredths of a second
MeasuredValues == {10, 15, 48}
FileProfiles ==
    {[exists |-> FALSE, rt60 |-> [freq \in Bands7 |-> 0]]} \cup
    {[exists |-> TRUE,
      rt60 |-> [freq \in Bands7 |-> IF freq \in invalid THEN 0 ELSE v]] :
        v \in MeasuredValues, invalid \in {{}, {8000}, Bands7}}
\* the log files: one position has any profile, the others share one
HubFileSets ==
    {[pos \in HubPositions |-> IF pos = q THEN one ELSE rest] :
        q \in HubPositions, one \in FileProfiles, rest \in FileProfiles}

DefaultHubFiles ==
    [pos \in HubPositions |->
        [exists |-> TRUE, rt60 |-> [freq \in Bands7 |-> 48]]]

\* the arguments of one run, by the call they are for
SimArgs ==
    [kind : {"rt60"}, panel_counts : Allocations, order : {DictOrder},
     drape_removal : BOOLEAN]
    \cup [kind : {"sti"}, rt60_improvement : StiInputs]
\* panel counts around the branch panel_count <= 15 of the explorer
AllocCounts == (0..MaxRows) \cup {15, 16, 17, MaxPanelRequest}
\* the STI line of a log, per band in hundredths
StiLevels == {0, 30, 60, 75}
StiLines ==
    {[i \in 1..7 |-> v] : v \in StiLevels}
    \cup {<<58, 61, 66, 70, 73, 69, 64>>}
\* the logs of the Smaart directory: only HostA's, with this STI line
DefaultSmaart ==
    [reference_sti |-> <<58, 61, 66, 70, 73, 69, 64>>, files |-> <<>>]
\* HostA's log with or without an STI line, and the log of one more position
SmaartLogs ==
    [reference_sti : StiLines \cup {<<>>},
     files : {<<[position_name |-> pos, sti_values |-> line]>> :
                 pos \in {"HostC (Talent)", "MidRoom", "SECorner"},
                 line \in StiLines \cup {<<>>}}]

AllocArgs ==
    [kind : {"alloc"}, panel_count : AllocCounts, rows : PriorityTables,
     smaart : {DefaultSmaart}]
    \cup [kind : {"fill"}, panel_count : 0..MaxPanelRequest]
HeatmapArgs ==
    [kind : {"heatmap"}, panel_count : 0..MaxPanelRequest]

----------------------------------------------------------------------------
(* Initial states.                                                         *)

\* TreatmentSimulator.__init__: Studio 8 is loaded; drape_data is not set
SimInit ==
    /\ room_volume = SpaceParameters("Studio 8").room_volume
    /\ room_surface_area = SpaceParameters("Studio 8").room_surface_area
    /\ current_conditions = SpaceParameters("Studio 8").current_conditions
    /\ drape_data = NoDrapeData
    /\ panel_specs = PanelSpecs

\* RT60HeatmapAnalyzerHub.__init__ over the given log files
HubInit(files) ==
    /\ smaart_hub = files
    /\ actual_rt60_data = load_smaart_rt60_data(files)

Init ==
    /\ SimInit
    /\ HubInit(DefaultHubFiles)
    /\ args \in SimArgs
    /\ session_state = NoSession
    /\ health = NotStarted
    /\ ret = [op |-> "init"]

----------------------------------------------------------------------------
(* Operations of the treatment simulator.                                  *)

\* render_treatment_simulator(space) with the widget values of one rerun:
\* loads the room and the drape table, then predicts for the inputs
RenderTreatmentSimulator ==
    \E space \in Spaces, table \in DrapeTables :
        LET loaded ==
                [_load_space_parameters(Simulator, space) EXCEPT
                    !.drape_data = [assigned |-> TRUE, table |-> table]]
            checkbox == IF args.kind = "rt60" THEN args.drape_removal ELSE TRUE
            drape_removal == IF space = "Studio 8" THEN checkbox ELSE FALSE
            call == calculate_rt60_with_panels(loaded, WidgetPanels(space),
                                               drape_removal)
        IN  /\ room_volume' = loaded.room_volume
            /\ room_surface_area' = loaded.room_surface_area
            /\ current_conditions' = loaded.current_conditions
            /\ drape_data' = loaded.drape_data
            /\ panel_specs' = loaded.panel_specs
            /\ ret' = [op |-> "render_treatment_simulator",
                       space |-> space,
                       call |-> call,
                       cost_benefit |-> create_cost_benefit_analysis(
                                           loaded, CostBenefitMaxPanels),
                       summary |-> treatment_summary(
                                      loaded, WidgetPanels(space),
                                      call.new_rt60)]
            /\ UNCHANGED <<hubVars, session_state, health, args>>

CalculateRt60WithPanels ==
    /\ args.kind = "rt60"
    /\ ret' = calculate_rt60_listed(Simulator, args.panel_counts,
                                    args.order, args.drape_removal)
    /\ UNCHANGED <<simVars, hubVars, session_state, health, args>>

CalculateStiImprovement ==
    /\ args.kind = "sti"
    /\ ret' = [op |-> "calculate_sti_improvement",
               rt60_improvement |-> args.rt60_improvement,
               sti |-> calculate_sti_improvement(Simulator,
                                                 args.rt60_improvement)]
    /\ UNCHANGED <<simVars, hubVars, session_state, health, args>>

Next ==
    \/ RenderTreatmentSimulator
    \/ CalculateRt60WithPanels
    \/ CalculateStiImprovement

Spec == Init /\ [][Next]_vars

----------------------------------------------------------------------------
(* Round trip through the Sabine formula for an arbitrary room: the        *)
(* attributes hold any volume, surface area and baseline RT60.             *)

RoomVolumes == {100, 1900, 2650, 9000}
RoomSurfaces == {50, 1400, 1847, 6000}
BaselineRT60s == {5, 48, 92, 300}

InitRoundTrip ==
    /\ room_volume \in RoomVolumes
    /\ room_surface_area \in RoomSurfaces
    /\ \E lo \in BaselineRT60s, hi \in BaselineRT60s :
         current_conditions =
            [rt60_by_freq |-> [freq \in SimBands |->
                                  IF freq <= 500 THEN lo ELSE hi],
             average_sti |-> 67, average_rt60 |-> 75]
    /\ drape_data = NoDrapeData
    /\ panel_specs = PanelSpecs
    /\ HubInit(DefaultHubFiles)
    /\ args = [kind |-> "rt60", panel_counts |-> [t \in Thickness |-> 0],
               order |-> DictOrder, drape_removal |-> FALSE]
    /\ session_state = NoSession
    /\ health = NotStarted
    /\ ret = [op |-> "init"]

NextRoundTrip == CalculateRt60WithPanels

SpecRoundTrip == InitRoundTrip /\ [][NextRoundTrip]_vars

----------------------------------------------------------------------------
(* Direct mode: the panel_counts dict of a caller that lists the thickness *)
(* classes in any order.                                                   *)

\* every order in which the four keys can be listed
KeyOrders ==
    {order \in [1..4 -> Thickness] :
        \A i, j \in 1..4 : i # j => order[i] # order[j]}

DirectCounts == {0, SmallCount, MaxPanelInput}

\* a simulator on which render_treatment_simulator(space) has loaded either
\* room and the fallback drape table
InitDirect ==
    /\ \E space \in Spaces :
          /\ room_volume = SpaceParameters(space).room_volume
          /\ room_surface_area = SpaceParameters(space).room_surface_area
          /\ current_conditions = SpaceParameters(space).current_conditions
    /\ drape_data = [assigned |-> TRUE, table |-> DrapeFallback]
    /\ panel_specs = PanelSpecs
    /\ HubInit(DefaultHubFiles)
    /\ args \in [kind : {"rt60"}, panel_counts : [Thickness -> DirectCounts],
                 order : KeyOrders, drape_removal : BOOLEAN]
    /\ session_state = NoSession
    /\ health = NotStarted
    /\ ret = [op |-> "init"]

NextDirect == CalculateRt60WithPanels

SpecDirect == InitDirect /\ [][NextDirect]_vars

----------------------------------------------------------------------------
(* Operations of the heatmap code.                                         *)

GetPanelAbsorptionByCount ==
    /\ args.kind \in {"fill", "heatmap"}
    /\ ret' = get_panel_absorption_by_count(args.panel_count)
    /\ UNCHANGED <<simVars, hubVars, session_state, health, args>>

AnalyzerCalculateRt60WithPanels ==
    /\ args.kind = "fill"
    /\ ret' = analyzer_calculate_rt60_with_panels(args.panel_count)
    /\ UNCHANGED <<simVars, hubVars, session_state, health, args>>

CreateAdjustedDegradationHeatmap ==
    /\ args.kind = "alloc"
    /\ ret' = create_adjusted_degradation_heatmap(args.rows, args.panel_count,
                                                  args.smaart)
    /\ UNCHANGED <<simVars, hubVars, session_state, health, args>>

HubCalculateRt60WithPanels ==
    /\ ret' = hub_calculate_rt60_with_panels(args.panel_count)
    /\ UNCHANGED <<simVars, hubVars, session_state, health, args>>

CreateHubTheoreticalHeatmap ==
    /\ ret' = create_hub_theoretical_heatmap(args.panel_count)
    /\ UNCHANGED <<simVars, hubVars, session_state, health, args>>

InitAlloc ==
    /\ SimInit
    /\ HubInit(DefaultHubFiles)
    /\ args \in AllocArgs
    /\ session_state = NoSession
    /\ health = NotStarted
    /\ ret = [op |-> "init"]

NextAlloc ==
    \/ GetPanelAbsorptionByCount
    \/ AnalyzerCalculateRt60WithPanels
    \/ CreateAdjustedDegradationHeatmap

SpecAlloc == InitAlloc /\ [][NextAlloc]_vars

\* the 3D model's panels and the analyzer's fill for the same panel count
AddTreatmentPanelsStudio8 ==
    /\ args.kind = "fill"
    /\ ret' = _add_treatment_panels_studio8(args.panel_count)
    /\ UNCHANGED <<simVars, hubVars, session_state, health, args>>

AddTreatmentPanelsHubCorrected ==
    /\ args.kind = "fill"
    /\ ret' = _add_treatment_panels_hub_corrected(args.panel_count)
    /\ UNCHANGED <<simVars, hubVars, session_state, health, args>>

InitVisualizer ==
    /\ SimInit
    /\ HubInit(DefaultHubFiles)
    /\ args \in [kind : {"fill"}, panel_count : 0..MaxPanelRequest]
    /\ session_state = NoSession
    /\ health = NotStarted
    /\ ret = [op |-> "init"]

NextVisualizer ==
    \/ AddTreatmentPanelsStudio8
    \/ AddTreatmentPanelsHubCorrected
    \/ GetPanelAbsorptionByCount

SpecVisualizer == InitVisualizer /\ [][NextVisualizer]_vars

\* the after-treatment STI heatmap over the logs it can find
InitTreated ==
    /\ SimInit
    /\ HubInit(DefaultHubFiles)
    /\ args \in [kind : {"alloc"}, panel_count : 0..MaxPanelRequest,
                 rows : UNION {[1..n -> PriorityRow] : n \in 0..1},
                 smaart : SmaartLogs]
    /\ session_state = NoSession
    /\ health = NotStarted
    /\ ret = [op |-> "init"]

NextTreated == CreateAdjustedDegradationHeatmap

SpecTreated == InitTreated /\ [][NextTreated]_vars

\* priority tables with one row for each of four positions
TablePositions == <<"HostC", "MidRoom", "NECorner-High", "SECorner">>
FullTables ==
    {[k \in 1..Len(TablePositions) |->
         [position |-> TablePositions[k], priority_score |-> score[k]]] :
        score \in [1..Len(TablePositions) -> PriorityScores]}

InitPriority ==
    /\ SimInit
    /\ HubInit(DefaultHubFiles)
    /\ args \in [kind : {"alloc"}, panel_count : 0..MaxPanelRequest,
                 rows : FullTables, smaart : {DefaultSmaart}]
    /\ session_state = NoSession
    /\ health = NotStarted
    /\ ret = [op |-> "init"]

NextPriority == CreateAdjustedDegradationHeatmap

SpecPriority == InitPriority /\ [][NextPriority]_vars

InitHub ==
    /\ SimInit
    /\ \E files \in HubFileSets : HubInit(files)
    /\ args \in HeatmapArgs
    /\ session_state = NoSession
    /\ health = NotStarted
    /\ ret = [op |-> "init"]

NextHub ==
    \/ GetPanelAbsorptionByCount
    \/ HubCalculateRt60WithPanels
    \/ CreateHubTheoreticalHeatmap

SpecHub == InitHub /\ [][NextHub]_vars

----------------------------------------------------------------------------
(* The Hub data generators: the STI estimate of one parsed log.            *)

AlconsValues == {k * AlconsStep : k \in 0..MaxAlconsSteps}
TMidValues == {k * TMidStep : k \in 0..MaxTMidSteps}

\* the dicts parse_smaart_file can return, as far as the estimate reads them
PositionData ==
    {("alcons_s" :> a) @@ ("t_mid" :> t) : a \in AlconsValues, t \in TMidValues}
    \cup [{"alcons_s"} -> AlconsValues]
    \cup [{"t_mid"} -> TMidValues]
    \cup {<<>>}

\* generate_hub_frequency_simple.calculate_sti_degradation
SimpleCalculateStiDegradation ==
    /\ ret' = [op |-> "simple_calculate_sti_degradation",
               position_data |-> args.position_data,
               result |-> calculate_sti_degradation(args.position_data)]
    /\ UNCHANGED <<simVars, hubVars, session_state, health, args>>

\* generate_hub_complete_frequency_data.calculate_sti_degradation
CompleteCalculateStiDegradation ==
    /\ ret' = [op |-> "complete_calculate_sti_degradation",
               position_data |-> args.position_data,
               result |-> calculate_sti_degradation(args.position_data)]
    /\ UNCHANGED <<simVars, hubVars, session_state, health, args>>

InitDegradation ==
    /\ SimInit
    /\ HubInit(DefaultHubFiles)
    /\ args \in [kind : {"degradation"}, position_data : PositionData]
    /\ session_state = NoSession
    /\ health = NotStarted
    /\ ret = [op |-> "init"]

NextDegradation ==
    \/ SimpleCalculateStiDegradation
    \/ CompleteCalculateStiDegradation

SpecDegradation == InitDegradation /\ [][NextDegradation]_vars

----------------------------------------------------------------------------
(* The health check process.                                               *)

HealthAttempt ==
    /\ health.pc = "loop"
    /\ range_has_next(health.attempts)
    /\ \E response \in Responses : health' = attempt(health, response)
    /\ UNCHANGED <<simVars, hubVars, session_state, args, ret>>

HealthGiveUp ==
    /\ health.pc = "loop"
    /\ ~range_has_next(health.attempts)
    /\ health' = give_up(health)
    /\ UNCHANGED <<simVars, hubVars, session_state, args, ret>>

InitHealth ==
    /\ SimInit
    /\ HubInit(DefaultHubFiles)
    /\ args = [kind |-> "health"]
    /\ session_state = NoSession
    /\ health = NotStarted
    /\ ret = [op |-> "init"]

NextHealth ==
    \/ HealthAttempt
    \/ HealthGiveUp

SpecHealth == InitHealth /\ [][NextHealth]_vars

\* the interpreter runs the script on: a request returns within its
\* timeout and a sleep ends
SpecHealthLive == SpecHealth /\ WF_vars(NextHealth)

----------------------------------------------------------------------------
(* The dashboard session: the first load of a URL, then reruns on what the *)
(* user does.                                                              *)

\* the 'space' and 'page' query parameters of the URL opened
UrlSpaces == Spaces \cup {"Studio 9"}
UrlPages == {"Summary", "3D Room Model", "Frequency Response", "Home"}

AnalysisTypes ==
    {"STI Degradation Heatmap", "Magnitude Response", "Phase Response",
     "Modal Stack Analysis"}

\* what the user types into a Panel Count input (-1: nothing)
TypedCounts == {-1, 0, HubDefaultCount, HubMaxPanels + 1, Studio8MaxPanels}

\* the pages the user opens: the two with a Panel Count input and one of
\* the others
PickedPages == {"Summary", "3D Room Model", "Frequency Response"}

RunScript(url_space, url_page, pick_space, pick_page, pick_analysis, typed) ==
    LET run == render_dashboard(session_state, url_space, url_page,
                                pick_space, pick_page, pick_analysis, typed)
    IN  /\ session_state' = run.session
        /\ ret' = [op |-> "render_dashboard",
                   space |-> run.space,
                   outcome |-> run.outcome,
                   panel_input |-> run.panel_input,
                   charts |-> run.charts]
        /\ UNCHANGED <<simVars, hubVars, health, args>>

\* the first run of a browser session
FirstLoad ==
    /\ session_state = NoSession
    /\ health = NotStarted
    /\ \E url_space \in UrlSpaces, url_page \in UrlPages :
          RunScript(url_space, url_page, "keep", "keep", "keep", -1)

\* a later run: after st.rerun(), or on a change of a widget
Rerun ==
    /\ session_state # NoSession
    /\ \E pick_space \in Spaces \cup {"keep"}, pick_page \in PickedPages \cup {"keep"},
          pick_analysis \in AnalysisTypes \cup {"keep"}, typed \in TypedCounts :
          RunScript("Studio 8", "Summary", pick_space, pick_page,
                    pick_analysis, typed)

InitDashboard ==
    /\ SimInit
    /\ HubInit(DefaultHubFiles)
    /\ args = [kind |-> "session"]
    /\ session_state = NoSession
    /\ health = NotStarted
    /\ ret = [op |-> "init"]

NextDashboard ==
    \/ FirstLoad
    \/ Rerun

SpecDashboard == InitDashboard /\ [][NextDashboard]_vars

----------------------------------------------------------------------------
(* Properties of TreatmentSimulator.                                       *)

\* the record of the last calculate_rt60_with_panels, called directly or by
\* render_treatment_simulator
HasRt60 ==
    \/ ret.op = "calculate_rt60_with_panels" /\ ret.status = "ok"
    \/ ret.op = "render_treatment_simulator" /\ ret.call.status = "ok"

LastRt60 == IF ret.op = "render_treatment_simulator" THEN ret.call ELSE ret

ZeroPanels == [t \in Thickness |-> 0]

\* what is added to an allocation to get a larger one
PanelDeltas ==
    {[t \in Thickness |-> IF t = one THEN more ELSE 0] :
        one \in Thickness, more \in {1, LargeCount}}
    \cup {[t \in Thickness |-> more] : more \in {1, LargeCount}}

\* C1: calculate_rt60_with_panels is monotone in the allocation: for the
\* loaded room, the same drape_removal flag and every band, an allocation
\* with every count >= that of the last call never has a larger RT60.
C1_Monotone ==
    HasRt60 =>
        \A delta \in PanelDeltas :
            LET more == calculate_rt60_with_panels(
                            Simulator,
                            [t \in Thickness |->
                                LastRt60.panel_counts[t] + delta[t]],
                            LastRt60.drape_removal)
            IN  \A freq \in SimBands :
                    FracLeq(more.new_rt60[freq], LastRt60.new_rt60[freq])

\* C1 witness: on The Hub, with the drape removed, one more 2" panel
\* strictly lowers the RT60 of the 1 kHz band.
C1_Witness ==
    /\ ret.op = "calculate_rt60_with_panels"
    /\ ret.status = "ok"
    /\ ret.drape_removal
    /\ room_volume = SpaceParameters("The Hub").room_volume
    /\ ret.panel_counts["5_5_inch"] > 0
    /\ FracLess(calculate_rt60_with_panels(
                    Simulator,
                    [ret.panel_counts EXCEPT !["2_inch"] = @ + 1],
                    TRUE).new_rt60[1000],
                ret.new_rt60[1000])

\* C2: calculate_sti_improvement returns a value within [0, sti_target]
\* for every argument, negative ones included.
C2_StiWithinRange ==
    ret.op = "calculate_sti_improvement" =>
        /\ FracLeq(Frac(0, 1), ret.sti)
        /\ FracLeq(ret.sti, Frac(sti_target, 100))

\* C3: every new absorption coefficient lies within [0.01, 0.99] and every
\* returned RT60 is finite, positive and at least 0.1 s.
C3_AlphaClamped ==
    HasRt60 =>
        \A freq \in SimBands :
            /\ FracLeq(Frac(1, 100), LastRt60.new_alpha[freq])
            /\ FracLeq(LastRt60.new_alpha[freq], Frac(99, 100))
            /\ LastRt60.new_rt60[freq].den > 0
            /\ LastRt60.new_rt60[freq].num > 0
            /\ FracLeq(Frac(1, 10), LastRt60.new_rt60[freq])

\* C3 witness: on The Hub a degenerate allocation drives a band to the
\* upper clamp.
C3_Witness ==
    /\ ret.op = "calculate_rt60_with_panels"
    /\ ret.status = "ok"
    /\ room_volume = SpaceParameters("The Hub").room_volume
    /\ ret.drape_removal
    /\ \E t \in Thickness : ret.panel_counts[t] = LargeCount
    /\ \E freq \in SimBands : FracEq(ret.new_alpha[freq], Frac(99, 100))

\* C4: with every panel count 0 and the drape kept, the new absorption
\* coefficient of every band is the baseline 0.161 V / (RT60 S) and the
\* returned RT60 is the baseline RT60 of the loaded room.
C4_Identity ==
    (HasRt60 /\ LastRt60.panel_counts = ZeroPanels /\ ~LastRt60.drape_removal)
    => \A freq \in SimBands :
           /\ FracEq(LastRt60.new_alpha[freq],
                     Frac(SabineMilli * room_volume,
                          10 * current_conditions.rt60_by_freq[freq]
                             * room_surface_area))
           /\ FracEq(LastRt60.new_rt60[freq],
                     Frac(current_conditions.rt60_by_freq[freq], 100))

\* C4 witness: the zero allocation was computed on The Hub's profile.
C4_Witness ==
    /\ HasRt60
    /\ LastRt60.panel_counts = ZeroPanels
    /\ ~LastRt60.drape_removal
    /\ current_conditions = SpaceParameters("The Hub").current_conditions

\* whether the baseline 0.161 V / (r S) of a band is inside the clamp range
InsideClamp(freq) ==
    /\ 10 * current_conditions.rt60_by_freq[freq] * room_surface_area
          <= 100 * SabineMilli * room_volume
    /\ 100 * SabineMilli * room_volume
          <= 990 * current_conditions.rt60_by_freq[freq] * room_surface_area

----------------------------------------------------------------------------
(* Properties of the priority allocators.                                  *)

RECURSIVE SeqSum(_)
SeqSum(q) == IF q = <<>> THEN 0 ELSE q[Len(q)] + SeqSum(SubSeq(q, 1, Len(q) - 1))

ZoneSum(zones) ==
    zones.corner_traps + zones.midpoint_panels + zones.ceiling_panels
        + zones.wall_panels + zones.cloud_panels

\* C6: the per-zone counts of get_panel_absorption_by_count (the zone
\* locals it has assigned, and the counts its arithmetic gives) and the
\* per-position counts of create_adjusted_degradation_heatmap are all
\* non-negative and sum to no more than the requested total.
C6_Partition ==
    /\ ret.op = "get_panel_absorption_by_count" =>
          /\ \A z \in ZoneNames :
                /\ ret.zones[z] >= 0
                /\ priority_fill(ret.panel_count)[z] >= 0
          /\ ZoneSum(ret.zones) <= ret.panel_count
          /\ ZoneSum(priority_fill(ret.panel_count)) <= ret.panel_count
    /\ ret.op = "create_adjusted_degradation_heatmap" =>
          /\ \A k \in 1..Len(ret.panels_per_position) :
                ret.panels_per_position[k] >= 0
          /\ SeqSum(ret.panels_per_position) <= ret.panel_count

\* C6 witness: more than 15 panels were requested and ran out, so the last
\* served position got fewer panels than its priority would give it.
C6_Witness ==
    /\ ret.op = "create_adjusted_degradation_heatmap"
    /\ ret.panel_count > 15
    /\ SeqSum(ret.panels_per_position) = ret.panel_count
    /\ \E k \in 1..Len(ret.panels_per_position) :
          /\ ret.sorted_priorities[k].priority >= 60
          /\ ret.panels_per_position[k] \in 1..5

\* the capacity of each treatment zone; the grid clouds are the three
\* clouds the 3D view draws
ZoneCapacity ==
    [corner_traps |-> 4, midpoint_panels |-> 3, ceiling_panels |-> 9,
     wall_panels |-> 4, cloud_panels |-> 3]

\* the number of panels whose absorption was counted for a band
Committed(r, freq) ==
    r.absorption_by_freq[freq].n_5_5_inch + r.absorption_by_freq[freq].n_3_inch

\* C7: when panel_count exceeds the total capacity of the zones,
\* get_panel_absorption_by_count counts the absorption of exactly that
\* capacity in every band.
C7_OverflowCapped ==
    (ret.op = "get_panel_absorption_by_count"
        /\ ret.panel_count > ZoneSum(ZoneCapacity))
    => /\ ret.status = "ok"
       /\ \A freq \in Bands7 : Committed(ret, freq) = ZoneSum(ZoneCapacity)

\* a zone's share when the zones are filled in priority order
FilledInOrder(panel_count, zone) ==
    LET order == <<"corner_traps", "midpoint_panels", "ceiling_panels",
                   "wall_panels", "cloud_panels">>
        k == CHOOSE k \in 1..Len(order) : order[k] = zone
        above == SeqSum([j \in 1..(k - 1) |-> ZoneCapacity[order[j]]])
    IN  IF zone = "cloud_panels" THEN Max(0, panel_count - above)
        ELSE Min(ZoneCapacity[zone], Max(0, panel_count - above))

\* C8: for every panel_count >= 0 get_panel_absorption_by_count fills the
\* zones in priority order, each up to its capacity, until the total is
\* exhausted, and counts the absorption of the panels so placed.
C8_PriorityFill ==
    ret.op = "get_panel_absorption_by_count" =>
        /\ ret.status = "ok"
        /\ \A z \in ZoneNames : ret.zones[z] = FilledInOrder(ret.panel_count, z)
        /\ \A freq \in Bands7 :
              /\ ret.absorption_by_freq[freq].n_5_5_inch =
                    FilledInOrder(ret.panel_count, "corner_traps")
                    + FilledInOrder(ret.panel_count, "midpoint_panels")
                    + FilledInOrder(ret.panel_count, "ceiling_panels")
              /\ ret.absorption_by_freq[freq].n_3_inch =
                    FilledInOrder(ret.panel_count, "wall_panels")
                    + FilledInOrder(ret.panel_count, "cloud_panels")

----------------------------------------------------------------------------
(* Properties of the Hub heatmaps.                                         *)

\* the measured baseline of a cell, as a fraction of a second
Baseline(pos_name, freq) == Frac(actual_rt60_data[pos_name][freq], 100)

HasBaseline(pos_name, freq) ==
    /\ pos_name \in DOMAIN actual_rt60_data
    /\ freq \in DOMAIN actual_rt60_data[pos_name]

ZeroAbsorption ==
    (ret.op = "get_panel_absorption_by_count" /\ ret.panel_count = 0)
    => /\ ret.status = "ok"
       /\ \A freq \in Bands7 : Committed(ret, freq) = 0

\* C9 as stated: get_panel_absorption_by_count(0) adds no absorption in any
\* band, and the Hub's calculate_rt60_with_panels(0) returns exactly the
\* measured baseline of every cell that has one.
C9_ZeroPanelsExact ==
    /\ ZeroAbsorption
    /\ (ret.op = "hub_calculate_rt60_with_panels" /\ ret.panel_count = 0)
       => \A pos_name \in HubPositions, freq \in Bands7 :
              HasBaseline(pos_name, freq) =>
                  FracEq(ret.rt60_data[pos_name][freq].value,
                         Baseline(pos_name, freq))

\* C9 amended: get_panel_absorption_by_count(0) adds no absorption in any
\* band, and the Hub's calculate_rt60_with_panels(0) returns the measured
\* baseline of a cell when it is at least 0.15 s and 0.15 s when it is less.
C9_ZeroPanelsFloored ==
    /\ ZeroAbsorption
    /\ (ret.op = "hub_calculate_rt60_with_panels" /\ ret.panel_count = 0)
       => \A pos_name \in HubPositions, freq \in Bands7 :
              HasBaseline(pos_name, freq) =>
                  LET value == ret.rt60_data[pos_name][freq].value
                  IN  IF actual_rt60_data[pos_name][freq] >= 15
                          THEN FracEq(value, Baseline(pos_name, freq))
                          ELSE FracEq(value, Frac(15, 100))

\* C9 witness: zero panels on the Hub with one cell measured below the
\* floor and another measured above it.
C9_Witness ==
    /\ ret.op = "hub_calculate_rt60_with_panels"
    /\ ret.panel_count = 0
    /\ \E pos_name \in HubPositions, freq \in Bands7 :
          /\ HasBaseline(pos_name, freq)
          /\ actual_rt60_data[pos_name][freq] < 15
    /\ \E pos_name \in HubPositions, freq \in Bands7 :
          /\ HasBaseline(pos_name, freq)
          /\ actual_rt60_data[pos_name][freq] > 15

\* C19: for a panel_count the Hub allows (0..16), every cell of the
\* dashboard's Hub heatmap whose measured baseline is at least 0.15 s has a
\* value of at least 0.15 s, and so has every cell without a baseline.
C19_DashboardFloor ==
    (/\ ret.op = "create_hub_theoretical_heatmap"
     /\ ret.status = "ok"
     /\ ret.panel_count <= HubMaxPanels)
    => \A pos_name \in DOMAIN ret.z_values, freq \in Bands7 :
          LET hub_rt60_data == load_smaart_rt60_data(smaart_hub)
              cell == ret.z_values[pos_name][freq]
          IN  (cell.source = "measured"
                   => hub_rt60_data[pos_name][freq] >= 15)
              => FracLeq(Frac(15, 100), cell.value)

\* C20 as stated: for every panel_count and every cell with a measured
\* baseline b > 0, the Hub's calculate_rt60_with_panels returns a value
\* with 0.15 <= value <= b.
C20_BoundedByBaseline ==
    ret.op = "hub_calculate_rt60_with_panels" =>
        \A pos_name \in HubPositions, freq \in Bands7 :
            HasBaseline(pos_name, freq) =>
                LET value == ret.rt60_data[pos_name][freq].value
                IN  /\ FracLeq(HubFloor, value)
                    /\ FracLeq(value, Baseline(pos_name, freq))

\* C20 amended: for every panel_count and every cell with a measured
\* baseline b > 0, the returned value is at least 0.15 s and at most the
\* larger of b and 0.15 s.
C20_BoundedByFlooredBaseline ==
    ret.op = "hub_calculate_rt60_with_panels" =>
        \A pos_name \in HubPositions, freq \in Bands7 :
            HasBaseline(pos_name, freq) =>
                LET value == ret.rt60_data[pos_name][freq].value
                    b     == Baseline(pos_name, freq)
                IN  /\ FracLeq(HubFloor, value)
                    /\ FracLeq(value, IF FracLeq(HubFloor, b)
                                          THEN b ELSE HubFloor)

\* C20 witness: panels on the Hub, with one cell measured below the floor
\* and held at 0.15 s, and another predicted strictly between the floor
\* and its baseline.
C20_Witness ==
    /\ ret.op = "hub_calculate_rt60_with_panels"
    /\ ret.panel_count > 0
    /\ \E pos_name \in HubPositions, freq \in Bands7 :
          /\ HasBaseline(pos_name, freq)
          /\ actual_rt60_data[pos_name][freq] < 15
          /\ FracEq(ret.rt60_data[pos_name][freq].value, HubFloor)
    /\ \E pos_name \in HubPositions, freq \in Bands7 :
          /\ HasBaseline(pos_name, freq)
          /\ FracLess(HubFloor, ret.rt60_data[pos_name][freq].value)
          /\ FracLess(ret.rt60_data[pos_name][freq].value,
                      Baseline(pos_name, freq))

\* C10: when a band or a whole position is absent from the baseline data,
\* the Hub prediction is rejected with an error and no cell is given a
\* substituted constant.
C10_MissingIsError ==
    /\ ret.op = "hub_calculate_rt60_with_panels" =>
          IF \A pos_name \in HubPositions, freq \in Bands7 :
                 HasBaseline(pos_name, freq)
              THEN ret.status = "ok"
              ELSE ret.status = "error"
    /\ ret.op = "create_hub_theoretical_heatmap" =>
          IF \A pos_name \in HubPositions, freq \in Bands7 :
                 HasBaseline(pos_name, freq)
              THEN ret.status = "ok"
              ELSE ret.status = "error"

----------------------------------------------------------------------------
(* Properties of the treatment simulator, continued.                       *)

\* the coefficient of a thickness class in a band, in hundredths, as the
\* table of _get_absorption_curve prints it
Coefficient(thickness, freq) == _get_absorption_curve(thickness)[freq]

\* C11: for every band the added absorption coefficient is the sum over the
\* thickness classes of count * 8 sq ft * coefficient / S, whatever the
\* order in which the classes are listed; a class with count 0 adds nothing.
C11_DirectSum ==
    (ret.op = "calculate_rt60_with_panels" /\ ret.status = "ok") =>
        \A freq \in SimBands :
            /\ FracEq(ret.total_added_absorption[freq],
                      Frac(8 * ( ret.panel_counts["2_inch"]
                                    * Coefficient("2_inch", freq)
                               + ret.panel_counts["3_inch"]
                                    * Coefficient("3_inch", freq)
                               + ret.panel_counts["5_5_inch"]
                                    * Coefficient("5_5_inch", freq)
                               + ret.panel_counts["11_inch"]
                                    * Coefficient("11_inch", freq)),
                           100 * room_surface_area))
            /\ ret.total_added_absorption[freq].num =
                  total_added_absorption(Simulator, ret.panel_counts,
                                         DictOrder, freq)

\* C11 witness: the classes were listed in another order than the
\* program's own, two of them with panels and one with none.
C11_Witness ==
    /\ ret.op = "calculate_rt60_with_panels"
    /\ ret.status = "ok"
    /\ args.order # DictOrder
    /\ ret.panel_counts["2_inch"] = 0
    /\ ret.panel_counts["3_inch"] > 0
    /\ ret.panel_counts["11_inch"] > 0
    /\ ret.total_added_absorption[125].num > 0

\* C12: for the allocation of the last call and every band, the RT60 with
\* drape_removal = True is at least the RT60 with drape_removal = False.
C12_DrapeNeverLowers ==
    HasRt60 =>
        LET removed == calculate_rt60_with_panels(
                           Simulator, LastRt60.panel_counts, TRUE)
            kept    == calculate_rt60_with_panels(
                           Simulator, LastRt60.panel_counts, FALSE)
        IN  removed.status = "ok" =>
                \A freq \in SimBands :
                    FracLeq(kept.new_rt60[freq], removed.new_rt60[freq])

\* C12 witness: on Studio 8 with the drape table loaded, removing the drape
\* strictly raised the RT60 of the 1 kHz band.
C12_Witness ==
    /\ HasRt60
    /\ LastRt60.drape_removal
    /\ drape_data.assigned
    /\ room_volume = SpaceParameters("Studio 8").room_volume
    /\ FracLess(calculate_rt60_with_panels(
                    Simulator, LastRt60.panel_counts, FALSE).new_rt60[1000],
                LastRt60.new_rt60[1000])

\* C13: the value render_treatment_simulator hands to
\* calculate_sti_improvement is the fractional reduction
\* (avg_before - avg_after) / avg_before of the band-averaged RT60, so that
\* the factor rt60_improvement / 0.3 reaches 1 only at a 30 percent reduction.
C13_FractionPassed ==
    (ret.op = "render_treatment_simulator" /\ ret.summary.shown) =>
        LET fraction == ((ret.summary.sum_before - ret.summary.sum_after) * 100)
                            \div ret.summary.sum_before
        IN  /\ ret.summary.avg_rt60_improvement = fraction
            /\ ret.summary.avg_rt60_improvement >= 30 => fraction >= 30

\* C14: in RT60HeatmapAnalyzer.calculate_rt60_with_panels the position
\* factor scales the panel term only, so with 0 panels the call returns,
\* for each band, the same RT60 at every measurement position.
C14_FactorOnAddedOnly ==
    (ret.op = "analyzer_calculate_rt60_with_panels" /\ ret.panel_count = 0)
    => /\ ret.status = "ok"
       /\ \A freq \in Bands7 : \A p, q \in AnalyzerPositions :
              ret.rt60_data[p][freq] = ret.rt60_data[q][freq]

\* the loaded room profile: volume, surface area, RT60 and STI tables
RoomProfile == <<room_volume, room_surface_area, current_conditions>>

\* C16 as stated: once the simulator is constructed, no operation changes
\* the panel specification tables or the loaded room profile.
C16_NothingChanges == [][UNCHANGED <<panel_specs, RoomProfile>>]_vars

\* C16 amended: no operation changes the panel specification tables;
\* calculate_rt60_with_panels and calculate_sti_improvement leave the
\* loaded room profile as it is; render_treatment_simulator(space) replaces
\* it by the built-in profile of space.
C16_TablesReadOnly ==
    [][/\ panel_specs' = panel_specs
       /\ panel_specs' = PanelSpecs
       /\ ret'.op \in {"calculate_rt60_with_panels",
                       "calculate_sti_improvement"}
             => UNCHANGED RoomProfile
       /\ ret'.op = "render_treatment_simulator"
             => /\ room_volume' = SpaceParameters(ret'.space).room_volume
                /\ room_surface_area' =
                      SpaceParameters(ret'.space).room_surface_area
                /\ current_conditions' =
                      SpaceParameters(ret'.space).current_conditions]_vars

\* C16 witness: render_treatment_simulator("The Hub") has replaced the
\* Studio 8 profile of the constructor, the panel tables being as built.
C16_Witness ==
    /\ ret.op = "render_treatment_simulator"
    /\ ret.space = "The Hub"
    /\ RoomProfile # <<SpaceParameters("Studio 8").room_volume,
                       SpaceParameters("Studio 8").room_surface_area,
                       SpaceParameters("Studio 8").current_conditions>>
    /\ panel_specs = PanelSpecs

\* k panels of class DictOrder[i] replaced by k panels of class DictOrder[j]
Replaced(panel_counts, i, j, k) ==
    [panel_counts EXCEPT ![DictOrder[i]] = @ - k, ![DictOrder[j]] = @ + k]

\* C18: in every band the coefficients of the panel table lie in [0, 1.4]
\* and do not decrease from 2" to 3" to 5.5" to 11"; and for the allocation
\* of the last call, replacing k panels of a thinner class by k panels of a
\* thicker class never gives a larger RT60 in any band.
C18_ThicknessOrdering ==
    (ret.op = "calculate_rt60_with_panels" /\ ret.status = "ok") =>
        /\ \A freq \in SimBands :
              /\ \A t \in Thickness :
                    /\ panel_specs[t].absorption_curve[freq] >= 0
                    /\ panel_specs[t].absorption_curve[freq] <= 140
              /\ \A i \in 1..3 :
                    panel_specs[DictOrder[i]].absorption_curve[freq]
                        <= panel_specs[DictOrder[i + 1]].absorption_curve[freq]
        /\ \A i \in 1..3 : \A j \in (i + 1)..4 :
              \A k \in {1, ret.panel_counts[DictOrder[i]]} :
                  (k >= 1 /\ k <= ret.panel_counts[DictOrder[i]]) =>
                      LET thicker == calculate_rt60_with_panels(
                                         Simulator,
                                         Replaced(ret.panel_counts, i, j, k),
                                         ret.drape_removal)
                      IN  \A freq \in SimBands :
                              FracLeq(thicker.new_rt60[freq],
                                      ret.new_rt60[freq])

\* C18 witness: Studio 8 with 2" panels only; replacing one of them by an
\* 11" panel strictly lowers the RT60 of the 125 Hz band.
C18_Witness ==
    /\ ret.op = "calculate_rt60_with_panels"
    /\ ret.status = "ok"
    /\ room_volume = SpaceParameters("Studio 8").room_volume
    /\ ret.panel_counts["2_inch"] = SmallCount
    /\ ret.panel_counts["3_inch"] = 0
    /\ ret.panel_counts["5_5_inch"] = 0
    /\ ret.panel_counts["11_inch"] = 0
    /\ FracLess(calculate_rt60_with_panels(
                    Simulator, Replaced(ret.panel_counts, 1, 4, 1),
                    ret.drape_removal).new_rt60[125],
                ret.new_rt60[125])

\* C17: for every %Alcons >= 0 and T_mid >= 0, calculate_sti_degradation
\* returns estimated_sti = max(0.3, 1 - alcons/15 - max(0, (t_mid - 0.3)/2))
\* within [0.3, 0.95] and a degradation_percent within [0, 100].
C17_StiDegradationRange ==
    ret.op \in {"simple_calculate_sti_degradation",
                "complete_calculate_sti_degradation"} =>
        LET alcons == IF "alcons_s" \in DOMAIN ret.position_data
                          THEN ret.position_data["alcons_s"] ELSE 30
            t_mid  == IF "t_mid" \in DOMAIN ret.position_data
                          THEN ret.position_data["t_mid"] ELSE 40
            excess == IF t_mid > 30 THEN t_mid - 30 ELSE 0
            sti    == 600 - 4 * alcons - 3 * excess
        IN  /\ FracEq(ret.result.estimated_sti,
                      Frac(IF sti > 180 THEN sti ELSE 180, 600))
            /\ FracLeq(Frac(30, 100), ret.result.estimated_sti)
            /\ FracLeq(ret.result.estimated_sti, Frac(95, 100))
            /\ FracLeq(Frac(0, 1), ret.result.degradation_percent)
            /\ FracLeq(ret.result.degradation_percent, Frac(100, 1))

----------------------------------------------------------------------------
(* Properties of the dashboard session.                                    *)

\* C15: whenever a run of the script reaches a Panel Count input, the
\* panel_count it offers and the panel_count it leaves in the session are
\* integers within [0, max], max being 16 for The Hub and 32 for Studio 8.
C15_PanelCountWithinCap ==
    (ret.op = "render_dashboard" /\ ret.panel_input.called) =>
        LET max == IF ret.space = "The Hub" THEN 16 ELSE 32
        IN  /\ ret.panel_input.value \in 0..max
            /\ session_state.panel_count \in 0..max
            /\ ret.outcome = "ok"

C29_SpaceSwitchReset ==
    ret.op = "render_dashboard" =>
        IF ret.outcome = "rerun"
            THEN /\ ~ret.charts.drawn
                 /\ ~ret.panel_input.called
                 /\ session_state.selected_space = ret.space
                 /\ Has(session_state, "cached_3d_fig")
                       => session_state.cached_3d_fig = NoFig
                 /\ Has(session_state, "cached_rt60_fig")
                       => session_state.cached_rt60_fig = NoFig
                 /\ Has(session_state, "panel_count")
                 /\ session_state.panel_count
                       = (IF ret.space = "The Hub" THEN 8 ELSE 25)
            ELSE session_state.selected_space = ret.space

\* C29 witness: a switch to The Hub from a Studio 8 session that holds both
\* figures, generated for 8 panels.
C29_Witness ==
    /\ ret.op = "render_dashboard"
    /\ ret.outcome = "rerun"
    /\ ret.space = "The Hub"
    /\ Has(session_state, "cached_rt60_fig")
    /\ session_state.last_panel_count_3d = HubDefaultCount
    /\ session_state.last_panel_count = HubDefaultCount

\* C22: in the after-treatment STI degradation heatmap, for every panel
\* count, every position with an STI line and every band with a positive
\* reference STI, the improved STI does not exceed the reference STI, and
\* the degradation after treatment is >= 0 and not greater than the
\* degradation before treatment of the same position and band.
C22_TreatedNotWorse ==
    (ret.op = "create_adjusted_degradation_heatmap" /\ ret.status = "ok") =>
        \A k \in 1..Len(ret.files) : \A i \in 1..7 :
            (ret.sti_matrix[k][i].parsed /\ ret.reference_sti[i] > 0) =>
                LET cell   == ret.sti_matrix[k][i]
                    ref    == ret.reference_sti[i]
                    sti    == ret.files[k].sti_values[i]
                    before == IF sti >= ref THEN Frac(0, 1)
                              ELSE Frac((ref - sti) * 100, ref)
                IN  /\ FracLeq(Frac(cell.improved_sti, StiScale),
                               Frac(ref, 100))
                    /\ FracLeq(Frac(0, 1), cell.degradation)
                    /\ FracLeq(cell.degradation, before)

\* C22 witness: six panels at a position whose STI of 0.30 stays below the
\* reference of 0.75 and whose degradation becomes strictly smaller.
C22_Witness ==
    /\ ret.op = "create_adjusted_degradation_heatmap"
    /\ ret.status = "ok"
    /\ ret.panel_count > 15
    /\ ret.reference_sti[1] = 75
    /\ ret.files[2].sti_values # <<>>
    /\ ret.files[2].sti_values[1] = 30
    /\ FracLess(Frac(0, 1), ret.sti_matrix[2][1].degradation)
    /\ FracLess(ret.sti_matrix[2][1].degradation, Frac(45 * 100, 75))

\* C30: for the priority table of the last call and a panel_count in 0..31,
\* one more panel never lowers the number of panels of any position, and a
\* position with a higher priority score never has fewer panels than a
\* position with a lower score.
C30_AllocationMonotone ==
    (/\ ret.op = "create_adjusted_degradation_heatmap"
     /\ ret.status = "ok"
     /\ ret.panel_count <= 31)
    => LET more == panels_per_position(ret.rows, ret.panel_count + 1)
           n    == Len(ret.sorted_priorities)
       IN  /\ \A k \in 1..n : ret.panels_per_position[k] <= more[k]
           /\ \A k \in 1..n, j \in 1..n :
                 ret.sorted_priorities[k].priority
                     > ret.sorted_priorities[j].priority
                 => ret.panels_per_position[k] >= ret.panels_per_position[j]

\* C23: once an attempt of health_check.py has received HTTP 200, the script
\* has exited with status 0 and made no further attempt.
C23_ExitsOnSuccess ==
    health.received_200 =>
        /\ health.pc = "exited"
        /\ health.exit_status = 0
        /\ health.last = "200"

\* C24: health_check.py makes at most 30 attempts and terminates, and when
\* no attempt received HTTP 200 its exit status is 1.
C24_Terminates ==
    /\ [](/\ health.attempts <= 30
          /\ (health.pc = "exited" /\ ~health.received_200)
                => health.exit_status = 1)
    /\ <>(health.pc = "exited")

\* C24 witness: the script has exited after 30 attempts that met errors,
\* timeouts and other status codes only.
C24_Witness ==
    /\ health.pc = "exited"
    /\ health.attempts = 30
    /\ ~health.received_200
    /\ health.exit_status = 1

\* the number of panels a call of the visualizer has drawn
Drawn(r) ==
    LET names == DOMAIN r.zones
        RECURSIVE Sum(_)
        Sum(left) == IF left = {} THEN 0
                     ELSE LET z == CHOOSE z \in left : TRUE
                          IN  r.zones[z] + Sum(left \ {z})
    IN  Sum(names)

\* C25: _add_treatment_panels_studio8 draws min(panel_count, 24) panels for
\* every panel_count in 0..32, and _add_treatment_panels_hub_corrected draws
\* min(panel_count, 8) panels for every panel_count in 0..16.
C25_DrawsRequested ==
    /\ (ret.op = "_add_treatment_panels_studio8" /\ ret.panel_count <= 32)
          => Drawn(ret) = (IF ret.panel_count < 24 THEN ret.panel_count ELSE 24)
    /\ (ret.op = "_add_treatment_panels_hub_corrected"
            /\ ret.panel_count <= 16)
          => Drawn(ret) = (IF ret.panel_count < 8 THEN ret.panel_count ELSE 8)

\* C26: for every panel_count in 0..32, get_panel_absorption_by_count
\* assigns to the corner bass traps, the high midpoint, the ceiling centre,
\* the north wall and the grid clouds the number of panels that
\* _add_treatment_panels_studio8 draws there, with the same thickness.
C26_AnalyzerFollowsVisualizer ==
    (ret.op = "get_panel_absorption_by_count" /\ ret.panel_count <= 32) =>
        LET drawn == _add_treatment_panels_studio8(ret.panel_count)
            same(zone, drawn_zone) ==
                /\ ret.zones[zone] = drawn.zones[drawn_zone]
                /\ ret.zones[zone] > 0 =>
                      analyzer_thickness[zone] = drawn.thickness[drawn_zone]
        IN  /\ ret.status = "ok"
            /\ same("corner_traps", "corner_traps")
            /\ same("midpoint_panels", "high_midpoint")
            /\ same("ceiling_panels", "ceiling_center")
            /\ same("wall_panels", "north_wall")
            /\ same("cloud_panels", "grid_clouds")

\* C27: whenever calculate_rt60_with_panels is called with
\* drape_removal = True, the attribute drape_data has been assigned.
C27_DrapeDataAssignedFirst ==
    (ret.op = "calculate_rt60_with_panels" /\ ret.drape_removal) =>
        /\ drape_data.assigned
        /\ ret.status = "ok"

\* C28: when render_treatment_simulator runs for The Hub, the predictions
\* of the before/after comparison, the effectiveness chart and the summary
\* (one shared call) and those of the cost-benefit analysis are computed
\* with drape_removal = False, so that no drape absorption is subtracted.
C28_HubWithoutDrape ==
    (ret.op = "render_treatment_simulator" /\ ret.space = "The Hub") =>
        /\ ~ret.call.drape_removal
        /\ ~ret.cost_benefit.drape_removal
        /\ \A freq \in SimBands :
              FracEq(ret.cost_benefit.rt60_11[freq],
                     calculate_rt60_with_panels(
                         Simulator,
                         [t \in Thickness |->
                             IF t = "11_inch" THEN ret.cost_benefit.max_panels
                             ELSE 0],
                         FALSE).new_rt60[freq])

====
